---- MODULE Spec2Model ----
(***************************************************************************)
(* Model of the lancet csv codec (package csv: collectFields, Marshal,     *)
(* Unmarshal), of WriteFile and ReadFile of package fs, and of cond.Or.     *)
(*                                                                          *)
(* Text is modelled as sequences of one-character strings, so that tag      *)
(* splitting, trimming, number formatting and parsing are computed          *)
(* character by character as the Go code does.  reflect.Type is a record    *)
(* [k |-> kind, ...]; a value is a payload interpreted by its type:         *)
(*   integer kinds  an integer          bool    a BOOLEAN                   *)
(*   float64        [m, e] = m / 10^e   string  a sequence of characters    *)
(*   time.Time      seconds after the zero instant (UTC)                    *)
(*   struct         the sequence of its field payloads                      *)
(*   pointer        << >> when nil, <<payload>> otherwise                   *)
(*   slice          the sequence of its element payloads                    *)
(* A reflect.Value is [t |-> type, d |-> payload].                          *)
(*                                                                          *)
(* The bytes of a document are modelled as the sequence of its lines, each  *)
(* line the sequence of its cells; quoting done by encoding/csv is          *)
(* lossless for the characters used here and is not spelled out.  A line    *)
(* without any character (the empty sequence) is a blank line.              *)
(***************************************************************************)
EXTENDS Integers, Sequences, FiniteSets, TLC

VARIABLES pc, call, ret

\* package fs: the path pattern the caller uses (fsPath), the reading of the wall
\* clock, the files of the directory (name to bytes), and the name and bytes
\* of the most recent write
VARIABLES fsPath, now, files, last

fsVars == <<fsPath, now, files, last>>

vars == <<pc, call, ret, fsPath, now, files, last>>

\* Bounds: the records of a slice given to Marshal, and the lines after the
\* header of a document given to Unmarshal
MaxRecs == 2
MaxRows == 2

\* Bound: the last reading of the wall clock, in seconds of one minute
MaxNow == 11

\* Bound: the arguments of a call of Or
MaxArgs == 3

SeqsUpTo(S, n) == UNION {[1..k -> S] : k \in 0..n}

(***************************************************************************)
(* Characters and strings                                                   *)
(***************************************************************************)
Digits == <<"0", "1", "2", "3", "4", "5", "6", "7", "8", "9">>

sName == <<"n", "a", "m", "e">>
sExtra == <<"e", "x", "t", "r", "a">>
sID == <<"i", "d">>
sOmitempty == <<"o", "m", "i", "t", "e", "m", "p", "t", "y">>
sComma == <<",">>
sSpace == <<" ">>
sTab == <<"\t">>

(***************************************************************************)
(* reflect.Type                                                             *)
(***************************************************************************)
KInt8 == [k |-> "int8"]
KInt64 == [k |-> "int64"]
KUint8 == [k |-> "uint8"]
KFloat64 == [k |-> "float64"]
KBool == [k |-> "bool"]
KString == [k |-> "string"]
KInvalid == [k |-> "invalid"]
KMap == [k |-> "map"]
TimeType == [k |-> "struct", name |-> "time.Time", fields |-> << >>]

PtrTo(t) == [k |-> "ptr", elem |-> t]
SliceOf(t) == [k |-> "slice", elem |-> t]
StructOf(n, fs) == [k |-> "struct", name |-> n, fields |-> fs]

\* reflect.StructField: Name, Tag.Get("csv"), Anonymous, Type
Field(n, tag, anon, t) == [name |-> n, tag |-> tag, anon |-> anon, type |-> t]

IsIntKind(t) == t.k \in {"int8", "int64"}
IsUintKind(t) == t.k \in {"uint8"}

(***************************************************************************)
(* Field resolution                                                         *)
(***************************************************************************)
RECURSIVE trimStart(_)
trimStart(s) ==
    IF s # << >> /\ (Head(s) = " " \/ Head(s) = "\t") THEN trimStart(Tail(s)) ELSE s

RECURSIVE trimEnd(_)
trimEnd(s) ==
    IF s # << >> /\ (s[Len(s)] = " " \/ s[Len(s)] = "\t")
    THEN trimEnd(SubSeq(s, 1, Len(s) - 1))
    ELSE s

\* trimSpace removes leading and trailing spaces and tabs
trimSpace(s) == trimEnd(trimStart(s))

\* splitCSVTag: parts is the list built so far, current the part being read
RECURSIVE splitCSVTagLoop(_, _, _)
splitCSVTagLoop(s, parts, current) ==
    IF s = << >> THEN Append(parts, current)
    ELSE IF Head(s) = ","
         THEN splitCSVTagLoop(Tail(s), Append(parts, current), << >>)
         ELSE splitCSVTagLoop(Tail(s), parts, Append(current, Head(s)))

splitCSVTag(s) == splitCSVTagLoop(s, << >>, << >>)

\* splitTag: the trimmed parts of the tag, the empty ones dropped
splitTag(tag) ==
    SelectSeq([i \in 1..Len(splitCSVTag(tag)) |-> trimSpace(splitCSVTag(tag)[i])],
              LAMBDA part : part # << >>)

\* whether some option (a part after the first) is "omitempty"
HasOmitempty(parts) == \E i \in 2..Len(parts) : parts[i] = sOmitempty

\* The fieldInfo of a regular field; panicked when parts[0] is out of range.
leafInfo(field, currentPath) ==
    IF field.tag = << >>
    THEN [panicked |-> FALSE,
          info |-> [name |-> field.name, indexPath |-> currentPath, omitempty |-> FALSE]]
    ELSE LET parts == splitTag(field.tag)
         IN  IF parts = << >>
             THEN [panicked |-> TRUE, info |-> << >>]
             ELSE [panicked |-> FALSE,
                   info |-> [name |-> parts[1], indexPath |-> currentPath,
                             omitempty |-> HasOmitempty(parts)]]

\* the type an anonymous field is recursed into, after one pointer is removed
EmbeddedType(field) == IF field.type.k = "ptr" THEN field.type.elem ELSE field.type

IsEmbeddedStruct(field) == field.anon /\ EmbeddedType(field).k = "struct"

\* collectFieldsRecursive from field i (0-based) on; acc is [panicked, fields]
RECURSIVE collectFieldsRecursive(_, _, _, _)
collectFieldsRecursive(t, indexPath, i, acc) ==
    IF acc.panicked \/ i >= Len(t.fields) THEN acc
    ELSE LET field == t.fields[i + 1]
             currentPath == Append(indexPath, i)
         IN  IF IsEmbeddedStruct(field)
             THEN collectFieldsRecursive(t, indexPath, i + 1,
                      collectFieldsRecursive(EmbeddedType(field), currentPath, 0, acc))
             ELSE LET li == leafInfo(field, currentPath)
                  IN  IF li.panicked
                      THEN [panicked |-> TRUE, fields |-> acc.fields]
                      ELSE collectFieldsRecursive(t, indexPath, i + 1,
                               [panicked |-> FALSE, fields |-> Append(acc.fields, li.info)])

\* the fields of a struct's own level first, those of embedded structs after
directFirst(cf) ==
    [panicked |-> cf.panicked,
     fields |-> SelectSeq(cf.fields, LAMBDA f : Len(f.indexPath) = 1) \o
                SelectSeq(cf.fields, LAMBDA f : Len(f.indexPath) > 1)]

\* the mutant of collectFields that flattens embedded structs after the
\* direct fields instead of at their position
collectFieldsDirectFirst(t) ==
    directFirst(collectFieldsRecursive(t, << >>, 0, [panicked |-> FALSE, fields |-> << >>]))

\* collectFields
collectFields(t) == collectFieldsRecursive(t, << >>, 0, [panicked |-> FALSE, fields |-> << >>])

(***************************************************************************)
(* Values                                                                   *)
(***************************************************************************)
\* the float64 m / 10^e, e the number of decimal places
Flt(m, e) == [m |-> m, e |-> e]

\* reflect.Zero / reflect.New(t).Elem(): the zero payload of a type
RECURSIVE Zero(_)
Zero(t) ==
    CASE IsIntKind(t) \/ IsUintKind(t) -> 0
      [] t.k = "float64" -> Flt(0, 0)
      [] t.k = "bool" -> FALSE
      [] t.k = "string" -> << >>
      [] t = TimeType -> 0
      [] t.k = "struct" /\ t # TimeType -> [i \in 1..Len(t.fields) |-> Zero(t.fields[i].type)]
      [] OTHER -> << >>

\* reflect.Value
Val(t, d) == [t |-> t, d |-> d]

\* getFieldByIndexPath: v the value reached, root the payload of the struct
\* the walk started from, nil pointers on the path now allocated
RECURSIVE getFieldByIndexPath(_, _)
getFieldByIndexPath(v, indexPath) ==
    IF indexPath = << >> THEN [v |-> v, root |-> v.d]
    ELSE LET idx == Head(indexPath)
             ft == v.t.fields[idx + 1].type
             fd == v.d[idx + 1]
         IN  IF ft.k = "ptr"
             THEN LET pd == IF fd = << >> THEN <<Zero(ft.elem)>> ELSE fd
                      sub == getFieldByIndexPath(Val(ft.elem, pd[1]), Tail(indexPath))
                  IN  [v |-> sub.v, root |-> [v.d EXCEPT ![idx + 1] = <<sub.root>>]]
             ELSE LET sub == getFieldByIndexPath(Val(ft, fd), Tail(indexPath))
                  IN  [v |-> sub.v, root |-> [v.d EXCEPT ![idx + 1] = sub.root]]

\* the mutant of setField that leaves a nil pointer on the path nil
RECURSIVE setFieldNoAlloc(_, _, _)
setFieldNoAlloc(v, indexPath, d) ==
    IF indexPath = << >> THEN d
    ELSE LET idx == Head(indexPath)
             ft == v.t.fields[idx + 1].type
             fd == v.d[idx + 1]
         IN  IF ft.k = "ptr"
             THEN IF fd = << >> THEN v.d
                  ELSE [v.d EXCEPT ![idx + 1] =
                           <<setFieldNoAlloc(Val(ft.elem, fd[1]), Tail(indexPath), d)>>]
             ELSE [v.d EXCEPT ![idx + 1] = setFieldNoAlloc(Val(ft, fd), Tail(indexPath), d)]

\* field.SetInt / SetUint / SetFloat / SetBool / SetString / Set on the value
\* getFieldByIndexPath returned: the payload of the struct with the field at
\* indexPath replaced by d
RECURSIVE setField(_, _, _)
setField(v, indexPath, d) ==
    IF indexPath = << >> THEN d
    ELSE LET idx == Head(indexPath)
             ft == v.t.fields[idx + 1].type
             fd == v.d[idx + 1]
         IN  IF ft.k = "ptr"
             THEN LET pd == IF fd = << >> THEN <<Zero(ft.elem)>> ELSE fd
                  IN  [v.d EXCEPT ![idx + 1] =
                          <<setField(Val(ft.elem, pd[1]), Tail(indexPath), d)>>]
             ELSE [v.d EXCEPT ![idx + 1] = setField(Val(ft, fd), Tail(indexPath), d)]

\* isZeroValue
isZeroValue(v) ==
    CASE v.t.k = "bool" -> ~v.d
      [] IsIntKind(v.t) -> v.d = 0
      [] IsUintKind(v.t) -> v.d = 0
      [] v.t.k = "float64" -> v.d.m = 0
      [] v.t.k = "string" -> v.d = << >>
      [] v.t.k = "ptr" -> v.d = << >>
      [] v.t.k = "struct" -> IF v.t = TimeType THEN v.d = 0 ELSE FALSE
      [] OTHER -> FALSE

(***************************************************************************)
(* Cell conversion                                                          *)
(***************************************************************************)
IsDigit(c) == \E i \in 1..10 : Digits[i] = c
DigitVal(c) == (CHOOSE i \in 1..10 : Digits[i] = c) - 1
AllDigits(s) == \A i \in 1..Len(s) : IsDigit(s[i])

RECURSIVE Pow10(_)
Pow10(n) == IF n = 0 THEN 1 ELSE 10 * Pow10(n - 1)

RECURSIVE FormatNat(_)
FormatNat(n) ==
    IF n < 10 THEN <<Digits[n + 1]>> ELSE Append(FormatNat(n \div 10), Digits[(n % 10) + 1])

RECURSIVE ParseNat(_)
ParseNat(s) ==
    IF s = << >> THEN 0 ELSE 10 * ParseNat(SubSeq(s, 1, Len(s) - 1)) + DigitVal(s[Len(s)])

\* strconv.FormatInt(n, 10)
FormatInt(n) == IF n < 0 THEN <<"-">> \o FormatNat(-n) ELSE FormatNat(n)

\* strconv.FormatUint(n, 10)
FormatUint(n) == FormatNat(n)

\* strconv.ParseInt(s, 10, 64); cells are short, so no value leaves 64 bits
ParseInt(s) ==
    LET signed == s # << >> /\ (Head(s) = "-" \/ Head(s) = "+")
        body == IF signed THEN Tail(s) ELSE s
    IN  IF body = << >> \/ ~AllDigits(body)
        THEN [ok |-> FALSE, val |-> 0]
        ELSE [ok |-> TRUE,
              val |-> IF signed /\ Head(s) = "-" THEN -ParseNat(body) ELSE ParseNat(body)]

\* strconv.ParseUint(s, 10, 64): no sign is permitted
ParseUint(s) ==
    IF s = << >> \/ ~AllDigits(s)
    THEN [ok |-> FALSE, val |-> 0]
    ELSE [ok |-> TRUE, val |-> ParseNat(s)]

\* the number of bits of an integer kind
Bits(t) == IF t.k \in {"int8", "uint8"} THEN 8 ELSE 64

RECURSIVE Pow2(_)
Pow2(n) == IF n = 0 THEN 1 ELSE 2 * Pow2(n - 1)

\* reflect.Value.SetInt: the value is truncated to the width of the field
SetInt(t, x) ==
    IF Bits(t) = 64 THEN x
    ELSE ((x + Pow2(Bits(t) - 1)) % Pow2(Bits(t))) - Pow2(Bits(t) - 1)

\* reflect.Value.SetUint: the value is truncated to the width of the field
SetUint(t, x) == IF Bits(t) = 64 THEN x ELSE x % Pow2(Bits(t))

\* m / 10^e without trailing zero decimals
RECURSIVE NormFlt(_, _)
NormFlt(m, e) == IF e > 0 /\ m % 10 = 0 THEN NormFlt(m \div 10, e - 1) ELSE Flt(m, e)

\* n written with exactly w digits
RECURSIVE PadNat(_, _)
PadNat(n, w) == IF w = 0 THEN << >> ELSE Append(PadNat(n \div 10, w - 1), Digits[(n % 10) + 1])

\* strconv.FormatFloat(f, 'f', -1, 64)
FormatFloat(f) ==
    LET a == IF f.m < 0 THEN -f.m ELSE f.m
        sign == IF f.m < 0 THEN <<"-">> ELSE << >>
    IN  sign \o FormatNat(a \div Pow10(f.e)) \o
        (IF f.e = 0 THEN << >> ELSE <<".">> \o PadNat(a % Pow10(f.e), f.e))

\* strconv.ParseFloat(s, 64) on decimal text: sign, digits, at most one point
ParseFloat(s) ==
    LET signed == s # << >> /\ (Head(s) = "-" \/ Head(s) = "+")
        body == IF signed THEN Tail(s) ELSE s
        points == {i \in 1..Len(body) : body[i] = "."}
        p == IF points = {} THEN Len(body) + 1 ELSE CHOOSE i \in points : TRUE
        ip == SubSeq(body, 1, p - 1)
        fp == SubSeq(body, p + 1, Len(body))
        mag == ParseNat(ip \o fp)
    IN  IF Cardinality(points) > 1 \/ ~AllDigits(ip) \/ ~AllDigits(fp) \/ ip \o fp = << >>
        THEN [ok |-> FALSE, val |-> Flt(0, 0)]
        ELSE [ok |-> TRUE,
              val |-> NormFlt(IF signed /\ Head(s) = "-" THEN -mag ELSE mag, Len(fp))]

sTrue == <<"t", "r", "u", "e">>
sFalse == <<"f", "a", "l", "s", "e">>

\* strconv.FormatBool
FormatBool(b) == IF b THEN sTrue ELSE sFalse

\* strconv.ParseBool
ParseBool(s) ==
    IF s \in {<<"1">>, <<"t">>, <<"T">>, <<"T", "R", "U", "E">>, sTrue, <<"T", "r", "u", "e">>}
    THEN [ok |-> TRUE, val |-> TRUE]
    ELSE IF s \in {<<"0">>, <<"f">>, <<"F">>, <<"F", "A", "L", "S", "E">>, sFalse,
                   <<"F", "a", "l", "s", "e">>}
         THEN [ok |-> TRUE, val |-> FALSE]
         ELSE [ok |-> FALSE, val |-> FALSE]

\* the RFC 3339 text of the instants of the first minute of year 1, UTC
sTimePrefix ==
    <<"0", "0", "0", "1", "-", "0", "1", "-", "0", "1", "T", "0", "0", ":", "0", "0", ":">>

\* time.Time.MarshalText: RFC 3339, never an error for these instants
MarshalText(n) == sTimePrefix \o PadNat(n, 2) \o <<"Z">>

\* time.Time.UnmarshalText
UnmarshalText(s) ==
    IF /\ Len(s) = Len(sTimePrefix) + 3
       /\ SubSeq(s, 1, Len(sTimePrefix)) = sTimePrefix
       /\ s[Len(s)] = "Z"
       /\ AllDigits(SubSeq(s, Len(s) - 2, Len(s) - 1))
       /\ ParseNat(SubSeq(s, Len(s) - 2, Len(s) - 1)) < 60
    THEN [ok |-> TRUE, val |-> ParseNat(SubSeq(s, Len(s) - 2, Len(s) - 1))]
    ELSE [ok |-> FALSE, val |-> 0]

(***************************************************************************)
(* encoding/csv as Marshal and Unmarshal use it                             *)
(***************************************************************************)
\* no error
Nil == "nil"

\* csv.Writer.Write: the cells of a record joined by commas.  An empty cell
\* is written without quotes, so a record of no cell and a record of one
\* empty cell both give a line without any character.
WriteRecord(record) ==
    IF Len(record) = 1 /\ record[1] = << >> THEN << >> ELSE record

\* csv.NewWriter(b).WriteAll(records) on a bytes.Buffer: never an error
WriteAll(records) == [i \in 1..Len(records) |-> WriteRecord(records[i])]

\* csv.NewReader(data).ReadAll() with the Reader's default settings: blank
\* lines are skipped, and FieldsPerRecord = 0 makes every record have the
\* number of fields of the first one (csv.ErrFieldCount otherwise)
ReadAll(data) ==
    LET rows == SelectSeq(data, LAMBDA line : line # << >>)
    IN  IF \E i \in 1..Len(rows) : Len(rows[i]) # Len(rows[1])
        THEN [records |-> << >>, err |-> "record on line: wrong number of fields"]
        ELSE [records |-> rows, err |-> Nil]

(***************************************************************************)
(* Marshal                                                                  *)
(***************************************************************************)
\* the mutant of FormatValue that writes the empty cell for a zero value
FormatValueBlankZero(field) ==
    CASE IsIntKind(field.t) ->
            [value |-> IF field.d = 0 THEN << >> ELSE FormatInt(field.d), err |-> Nil]
      [] IsUintKind(field.t) ->
            [value |-> IF field.d = 0 THEN << >> ELSE FormatUint(field.d), err |-> Nil]
      [] field.t.k = "float64" ->
            [value |-> IF field.d.m = 0 THEN << >> ELSE FormatFloat(field.d), err |-> Nil]
      [] field.t.k = "bool" ->
            [value |-> IF field.d THEN FormatBool(field.d) ELSE << >>, err |-> Nil]
      [] field.t.k = "string" -> [value |-> field.d, err |-> Nil]
      [] field.t.k = "struct" ->
            IF field.t = TimeType
            THEN [value |-> IF field.d = 0 THEN << >> ELSE MarshalText(field.d), err |-> Nil]
            ELSE [value |-> << >>, err |-> "unsupported struct type"]
      [] OTHER -> [value |-> << >>, err |-> "unsupported field type"]

\* the switch on field.Kind() that converts a field to its cell
FormatValue(field) ==
    CASE IsIntKind(field.t) -> [value |-> FormatInt(field.d), err |-> Nil]
      [] IsUintKind(field.t) -> [value |-> FormatUint(field.d), err |-> Nil]
      [] field.t.k = "float64" -> [value |-> FormatFloat(field.d), err |-> Nil]
      [] field.t.k = "bool" -> [value |-> FormatBool(field.d), err |-> Nil]
      [] field.t.k = "string" -> [value |-> field.d, err |-> Nil]
      [] field.t.k = "struct" ->
            IF field.t = TimeType
            THEN [value |-> MarshalText(field.d), err |-> Nil]
            ELSE [value |-> << >>, err |-> "unsupported struct type"]
      [] OTHER -> [value |-> << >>, err |-> "unsupported field type"]

\* The elements of sliceValue are payloads of type elemT, which is the
\* struct type sliceType or a pointer to it.
ElemIsNil(elemT, e) == elemT.k = "ptr" /\ e = << >>
ElemStruct(elemT, e) == IF elemT.k = "ptr" THEN e[1] ELSE e
WithStruct(elemT, e, root) == IF elemT.k = "ptr" THEN <<root>> ELSE root
SetElem(elemT, elems, j, root) ==
    [elems EXCEPT ![j + 1] = WithStruct(elemT, elems[j + 1], root)]

\* first pass, inner loop: whether a record from index j (0-based) on holds a
\* non-zero value at fieldInfo; elems as the walk leaves them
RECURSIVE scanRecords(_, _, _, _, _)
scanOne(elemT, sliceType, elems, fieldInfo, j, got) ==
    IF ~isZeroValue(got.v)
    THEN [hasNonZeroValue |-> TRUE, elems |-> SetElem(elemT, elems, j, got.root)]
    ELSE scanRecords(elemT, sliceType, SetElem(elemT, elems, j, got.root), fieldInfo, j + 1)

scanRecords(elemT, sliceType, elems, fieldInfo, j) ==
    IF j >= Len(elems) THEN [hasNonZeroValue |-> FALSE, elems |-> elems]
    ELSE IF ElemIsNil(elemT, elems[j + 1])
         THEN scanRecords(elemT, sliceType, elems, fieldInfo, j + 1)
         ELSE scanOne(elemT, sliceType, elems, fieldInfo, j,
                      getFieldByIndexPath(Val(sliceType, ElemStruct(elemT, elems[j + 1])),
                                          fieldInfo.indexPath))

\* the mutant of columnsToInclude that keeps every column
columnsToIncludeAll(elemT, sliceType, elems, fields, i, acc) ==
    [include |-> [n \in 1..Len(fields) |-> TRUE], elems |-> elems]

\* first pass: columnsToInclude from field i (0-based) on
RECURSIVE columnsToInclude(_, _, _, _, _, _)
columnScanned(elemT, sliceType, fields, i, acc, scan) ==
    columnsToInclude(elemT, sliceType, scan.elems, fields, i + 1,
                     Append(acc, scan.hasNonZeroValue))

columnsToInclude(elemT, sliceType, elems, fields, i, acc) ==
    IF i >= Len(fields) THEN [include |-> acc, elems |-> elems]
    ELSE IF ~fields[i + 1].omitempty
         THEN columnsToInclude(elemT, sliceType, elems, fields, i + 1, Append(acc, TRUE))
         ELSE columnScanned(elemT, sliceType, fields, i, acc,
                            scanRecords(elemT, sliceType, elems, fields[i + 1], 0))

\* the positions of the fields whose column is included, in order
includedIndexes(include) == SelectSeq([n \in 1..Len(include) |-> n], LAMBDA n : include[n])

\* includedFields
includedFields(fields, include) ==
    [n \in 1..Len(includedIndexes(include)) |-> fields[includedIndexes(include)[n]]]

\* the cells of one record from included field n (0-based) on
RECURSIVE encodeRecord(_, _, _, _, _)
encodeCell(sliceType, included, n, record, root, cell) ==
    IF cell.err # Nil
    THEN [record |-> << >>, root |-> root, err |-> cell.err]
    ELSE encodeRecord(sliceType, root, included, n + 1, Append(record, cell.value))

encodeField(sliceType, included, n, record, got) ==
    encodeCell(sliceType, included, n, record, got.root, FormatValue(got.v))

encodeRecord(sliceType, root, included, n, record) ==
    IF n >= Len(included) THEN [record |-> record, root |-> root, err |-> Nil]
    ELSE encodeField(sliceType, included, n, record,
                     getFieldByIndexPath(Val(sliceType, root), included[n + 1].indexPath))

\* the mutant of encodeRows that skips a nil element instead of failing
RECURSIVE encodeRowsSkipNil(_, _, _, _, _, _)
encodedRowSkipNil(elemT, sliceType, elems, included, i, records, row) ==
    IF row.err # Nil
    THEN [records |-> << >>, elems |-> SetElem(elemT, elems, i, row.root), err |-> row.err]
    ELSE encodeRowsSkipNil(elemT, sliceType, SetElem(elemT, elems, i, row.root), included,
                           i + 1, Append(records, row.record))

encodeRowsSkipNil(elemT, sliceType, elems, included, i, records) ==
    IF i >= Len(elems) THEN [records |-> records, elems |-> elems, err |-> Nil]
    ELSE IF ElemIsNil(elemT, elems[i + 1])
         THEN encodeRowsSkipNil(elemT, sliceType, elems, included, i + 1, records)
         ELSE encodedRowSkipNil(elemT, sliceType, elems, included, i, records,
                  encodeRecord(sliceType, ElemStruct(elemT, elems[i + 1]), included, 0, << >>))

\* second pass: one data row per element from index i (0-based) on
RECURSIVE encodeRows(_, _, _, _, _, _)
encodedRow(elemT, sliceType, elems, included, i, records, row) ==
    IF row.err # Nil
    THEN [records |-> << >>, elems |-> SetElem(elemT, elems, i, row.root), err |-> row.err]
    ELSE encodeRows(elemT, sliceType, SetElem(elemT, elems, i, row.root), included,
                    i + 1, Append(records, row.record))

encodeRows(elemT, sliceType, elems, included, i, records) ==
    IF i >= Len(elems) THEN [records |-> records, elems |-> elems, err |-> Nil]
    ELSE IF ElemIsNil(elemT, elems[i + 1])
         THEN [records |-> << >>, elems |-> elems, err |-> "slice element is nil"]
         ELSE encodedRow(elemT, sliceType, elems, included, i, records,
                  encodeRecord(sliceType, ElemStruct(elemT, elems[i + 1]), included, 0, << >>))

\* What Marshal returns, with the state it leaves: data, the bytes (none on
\* error); err; elems, the elements of sliceValue when the call returns;
\* headers and records, the locals of that name.
marshalFailed(e, elems) ==
    [data |-> << >>, err |-> e, elems |-> elems, headers |-> << >>, records |-> << >>]

\* the end of Marshal: WriteAll and return
marshalWrite(headers, rows) ==
    IF rows.err # Nil THEN marshalFailed(rows.err, rows.elems)
    ELSE [data |-> WriteAll(rows.records), err |-> Nil, elems |-> rows.elems,
          headers |-> headers, records |-> rows.records]

\* headers of the included columns
headersOf(included) == [n \in 1..Len(included) |-> included[n].name]

\* records = [headers], then the second pass
marshalRows(elemT, sliceType, elems, included) ==
    marshalWrite(headersOf(included),
                 encodeRows(elemT, sliceType, elems, included, 0, <<headersOf(included)>>))

\* headers and includedFields from columnsToInclude
marshalColumns(elemT, sliceType, fields, first) ==
    marshalRows(elemT, sliceType, first.elems, includedFields(fields, first.include))

\* the first pass over the fields collected
marshalFields(elemT, sliceType, elems, cf) ==
    IF cf.panicked THEN marshalFailed("panic: index out of range", elems)
    ELSE marshalColumns(elemT, sliceType, cf.fields,
                        columnsToInclude(elemT, sliceType, elems, cf.fields, 0, << >>))

\* Marshal from the check of sliceType on: elemT is the element type of
\* sliceValue, sliceType that type with a pointer removed
marshalSlice(elemT, sliceType, elems) ==
    IF sliceType.k # "struct" THEN marshalFailed("element must be a struct", elems)
    ELSE marshalFields(elemT, sliceType, elems, collectFields(sliceType))

Normal(shape, elemT, elems) == [err |-> Nil, shape |-> shape, elemT |-> elemT, elems |-> elems]
NotNormal(e) == [err |-> e, shape |-> "none", elemT |-> KInvalid, elems |-> << >>]

\* the mutant of normalize that has no case for a pointer to a slice
normalizeNoPtrSlice(rv) ==
    CASE rv.t.k = "invalid" -> NotNormal("v is nil")
      [] rv.t.k = "ptr" /\ rv.d = << >> -> NotNormal("v is nil")
      [] rv.t.k = "slice" -> Normal("slice", rv.t.elem, rv.d)
      [] rv.t.k = "ptr" /\ rv.d # << >> /\ rv.t.elem.k = "struct" ->
            Normal("ptrStruct", rv.t.elem, <<rv.d[1]>>)
      [] rv.t.k = "struct" -> Normal("struct", rv.t, <<rv.d>>)
      [] OTHER -> NotNormal("v must be a struct, a struct pointer or a slice of struct")

\* the mutant of normalize that makes the slice for a lone struct and
\* appends nothing to it
normalizeNoAppend(rv) ==
    CASE rv.t.k = "invalid" -> NotNormal("v is nil")
      [] rv.t.k = "ptr" /\ rv.d = << >> -> NotNormal("v is nil")
      [] rv.t.k = "slice" -> Normal("slice", rv.t.elem, rv.d)
      [] rv.t.k = "ptr" /\ rv.d # << >> /\ rv.t.elem.k = "slice" ->
            Normal("ptrSlice", rv.t.elem.elem, rv.d[1])
      [] rv.t.k = "ptr" /\ rv.d # << >> /\ rv.t.elem.k = "struct" ->
            Normal("ptrStruct", rv.t.elem, << >>)
      [] rv.t.k = "struct" -> Normal("struct", rv.t, << >>)
      [] OTHER -> NotNormal("v must be a struct, a struct pointer or a slice of struct")

\* the switch of Marshal on the shape of v: sliceValue and its element type
normalize(rv) ==
    CASE rv.t.k = "invalid" -> NotNormal("v is nil")
      [] rv.t.k = "ptr" /\ rv.d = << >> -> NotNormal("v is nil")
      [] rv.t.k = "slice" -> Normal("slice", rv.t.elem, rv.d)
      [] rv.t.k = "ptr" /\ rv.d # << >> /\ rv.t.elem.k = "slice" ->
            Normal("ptrSlice", rv.t.elem.elem, rv.d[1])
      [] rv.t.k = "ptr" /\ rv.d # << >> /\ rv.t.elem.k = "struct" ->
            Normal("ptrStruct", rv.t.elem, <<rv.d[1]>>)
      [] rv.t.k = "struct" -> Normal("struct", rv.t, <<rv.d>>)
      [] OTHER -> NotNormal("v must be a struct, a struct pointer or a slice of struct")

\* reflect.Append(sliceValue, rv) copies the struct, not what its pointers
\* refer to: of what the walk did to the copy (after), the caller's struct
\* (before) shows what lies behind a pointer that was not nil
RECURSIVE seenThroughCopy(_, _, _)
seenThroughCopy(t, before, after) ==
    [i \in 1..Len(t.fields) |->
        CASE t.fields[i].type.k = "ptr" -> IF before[i] = << >> THEN << >> ELSE after[i]
          [] t.fields[i].type.k = "struct" /\ t.fields[i].type # TimeType ->
                seenThroughCopy(t.fields[i].type, before[i], after[i])
          [] OTHER -> before[i]]

\* v is the payload of the caller's value when the call returns: a lone
\* struct was copied into a fresh slice, the elements of a caller's slice
\* were walked in place
marshalReturn(rv, n, m) ==
    [data |-> m.data, err |-> m.err, headers |-> m.headers, records |-> m.records,
     v |-> CASE n.shape = "slice" -> m.elems
             [] n.shape = "ptrSlice" -> <<m.elems>>
             [] n.shape = "ptrStruct" -> <<seenThroughCopy(n.elemT, rv.d[1], m.elems[1])>>
             [] OTHER -> seenThroughCopy(n.elemT, rv.d, m.elems[1])]

marshalNormalized(rv, n) ==
    IF n.err # Nil
    THEN [data |-> << >>, err |-> n.err, headers |-> << >>, records |-> << >>, v |-> rv.d]
    ELSE marshalReturn(rv, n,
             marshalSlice(n.elemT, IF n.elemT.k = "ptr" THEN n.elemT.elem ELSE n.elemT,
                          n.elems))

\* Marshal(v), rv = reflect.ValueOf(v)
Marshal(rv) == marshalNormalized(rv, normalize(rv))

(***************************************************************************)
(* Unmarshal                                                                *)
(***************************************************************************)
Converted(d) == [d |-> d, err |-> Nil]
NotConverted(d, e) == [d |-> d, err |-> e]

parsedInt(t, r) == IF r.ok THEN Converted(SetInt(t, r.val)) ELSE NotConverted(0, "strconv.ParseInt")
parsedUint(t, r) ==
    IF r.ok THEN Converted(SetUint(t, r.val)) ELSE NotConverted(0, "strconv.ParseUint")
parsedFloat(r) == IF r.ok THEN Converted(r.val) ELSE NotConverted(Flt(0, 0), "strconv.ParseFloat")
parsedBool(r) == IF r.ok THEN Converted(r.val) ELSE NotConverted(FALSE, "strconv.ParseBool")
parsedTime(r) == IF r.ok THEN Converted(r.val) ELSE NotConverted(0, "parsing time")

\* the mutant of ParseValue that parses the empty cell like any other
ParseValueNoDefault(t, value) ==
    CASE IsIntKind(t) -> parsedInt(t, ParseInt(value))
      [] IsUintKind(t) -> parsedUint(t, ParseUint(value))
      [] t.k = "float64" -> parsedFloat(ParseFloat(value))
      [] t.k = "bool" -> parsedBool(ParseBool(value))
      [] t.k = "string" -> Converted(value)
      [] t.k = "struct" ->
            IF t = TimeType THEN parsedTime(UnmarshalText(value))
            ELSE NotConverted(<< >>, "unsupported struct type")
      [] OTHER -> NotConverted(<< >>, "unsupported field type")

\* the switch on field.Kind() that converts a cell: d is the payload the
\* field is set to
ParseValue(t, value) ==
    CASE IsIntKind(t) ->
            IF value = << >> THEN Converted(SetInt(t, 0)) ELSE parsedInt(t, ParseInt(value))
      [] IsUintKind(t) ->
            IF value = << >> THEN Converted(SetUint(t, 0)) ELSE parsedUint(t, ParseUint(value))
      [] t.k = "float64" ->
            IF value = << >> THEN Converted(Flt(0, 0)) ELSE parsedFloat(ParseFloat(value))
      [] t.k = "bool" ->
            IF value = << >> THEN Converted(FALSE) ELSE parsedBool(ParseBool(value))
      [] t.k = "string" -> Converted(value)
      [] t.k = "struct" ->
            IF t = TimeType THEN parsedTime(UnmarshalText(value))
            ELSE NotConverted(<< >>, "unsupported struct type")
      [] OTHER -> NotConverted(<< >>, "unsupported field type")

\* fieldMap[header]: whether a field is registered under the name, and the
\* index path kept for it (the last field registered under that name)
fieldMapHas(fields, header) == \E n \in 1..Len(fields) : fields[n].name = header

\* the mutant of fieldMapGet that keeps the first field registered under a name
fieldMapGetFirst(fields, header) ==
    fields[CHOOSE n \in 1..Len(fields) :
               /\ fields[n].name = header
               /\ \A m \in 1..(n - 1) : fields[m].name # header].indexPath

fieldMapGet(fields, header) ==
    fields[CHOOSE n \in 1..Len(fields) :
               /\ fields[n].name = header
               /\ \A m \in (n + 1)..Len(fields) : fields[m].name # header].indexPath

\* the mutant of decodeCells that fails on a header no field is registered for
RECURSIVE decodeCellsStrict(_, _, _, _, _, _, _)
assignCellStrict(sliceType, fields, headers, record, limit, i, root, indexPath, conv) ==
    IF conv.err # Nil THEN [root |-> root, err |-> conv.err]
    ELSE decodeCellsStrict(sliceType, fields, headers, record, limit, i + 1,
                           setField(Val(sliceType, root), indexPath, conv.d))

decodeCellStrict(sliceType, fields, headers, record, limit, i, root, indexPath) ==
    assignCellStrict(sliceType, fields, headers, record, limit, i, root, indexPath,
        ParseValue(getFieldByIndexPath(Val(sliceType, root), indexPath).v.t, record[i + 1]))

decodeCellsStrict(sliceType, fields, headers, record, limit, i, root) ==
    IF i >= limit THEN [root |-> root, err |-> Nil]
    ELSE IF fieldMapHas(fields, headers[i + 1])
         THEN decodeCellStrict(sliceType, fields, headers, record, limit, i, root,
                               fieldMapGet(fields, headers[i + 1]))
         ELSE [root |-> root, err |-> "unknown column"]

\* the loop over the cells of one data row, from cell i (0-based) on: root is
\* the payload of newValue.Elem()
RECURSIVE decodeCells(_, _, _, _, _, _, _)
assignCell(sliceType, fields, headers, record, limit, i, root, indexPath, conv) ==
    IF conv.err # Nil THEN [root |-> root, err |-> conv.err]
    ELSE decodeCells(sliceType, fields, headers, record, limit, i + 1,
                     setField(Val(sliceType, root), indexPath, conv.d))

decodeCell(sliceType, fields, headers, record, limit, i, root, indexPath) ==
    assignCell(sliceType, fields, headers, record, limit, i, root, indexPath,
        ParseValue(getFieldByIndexPath(Val(sliceType, root), indexPath).v.t, record[i + 1]))

decodeCells(sliceType, fields, headers, record, limit, i, root) ==
    IF i >= limit THEN [root |-> root, err |-> Nil]
    ELSE IF fieldMapHas(fields, headers[i + 1])
         THEN decodeCell(sliceType, fields, headers, record, limit, i, root,
                         fieldMapGet(fields, headers[i + 1]))
         ELSE decodeCells(sliceType, fields, headers, record, limit, i + 1, root)

\* limit: the cells a data row shares with the header
rowLimit(headers, record) == IF Len(record) < Len(headers) THEN Len(record) ELSE Len(headers)

\* one data row decoded into a new zero value of sliceType
decodeRow(sliceType, fields, headers, record) ==
    decodeCells(sliceType, fields, headers, record, rowLimit(headers, record), 0,
                Zero(sliceType))

\* the loop over records[1:], from row k (1-based in records[1:]) on;
\* sliceValue is appended to row by row
RECURSIVE decodeRows(_, _, _, _, _, _)
appendRow(sliceType, isPtr, fields, records, k, sliceValue, row) ==
    IF row.err # Nil THEN [sliceValue |-> sliceValue, err |-> row.err]
    ELSE decodeRows(sliceType, isPtr, fields, records, k + 1,
                    Append(sliceValue, IF isPtr THEN <<row.root>> ELSE row.root))

decodeRows(sliceType, isPtr, fields, records, k, sliceValue) ==
    IF k + 1 > Len(records) THEN [sliceValue |-> sliceValue, err |-> Nil]
    ELSE appendRow(sliceType, isPtr, fields, records, k, sliceValue,
                   decodeRow(sliceType, fields, records[1], records[k + 1]))

\* the mutant of singleResult that takes the last decoded record
singleResultLast(sliceValue) == sliceValue[Len(sliceValue)]

\* sliceValue.Index(0), what a single-record target is set to
singleResult(sliceValue) == sliceValue[1]

\* What Unmarshal returns, with the state it leaves: err, and v, the payload
\* of the caller's pointer when the call returns.
unmarshalFailed(rv, e) == [err |-> e, v |-> rv.d]

\* the mutant of unmarshalReturn that takes a single-record target without
\* data rows as decoded
unmarshalReturnNoRows(rv, singleStruct, rows) ==
    IF ~singleStruct THEN [err |-> rows.err, v |-> <<rows.sliceValue>>]
    ELSE IF rows.err # Nil THEN unmarshalFailed(rv, rows.err)
    ELSE IF Len(rows.sliceValue) = 0 THEN [err |-> Nil, v |-> rv.d]
    ELSE [err |-> Nil, v |-> <<singleResult(rows.sliceValue)>>]

\* the end of Unmarshal: a slice target holds sliceValue as the loop left
\* it, a single-record target is set after the loop
unmarshalReturn(rv, singleStruct, rows) ==
    IF ~singleStruct THEN [err |-> rows.err, v |-> <<rows.sliceValue>>]
    ELSE IF rows.err # Nil THEN unmarshalFailed(rv, rows.err)
    ELSE IF Len(rows.sliceValue) = 0 THEN unmarshalFailed(rv, "no data rows found")
    ELSE [err |-> Nil, v |-> <<singleResult(rows.sliceValue)>>]

unmarshalFields(rv, singleStruct, sliceType, isPtr, sliceValue, records, cf) ==
    IF cf.panicked THEN unmarshalFailed(rv, "panic: index out of range")
    ELSE unmarshalReturn(rv, singleStruct,
             decodeRows(sliceType, isPtr, cf.fields, records, 1, sliceValue))

\* the mutant of unmarshalRecords that takes a document without records as
\* one without data rows
unmarshalRecordsNoCheck(rv, singleStruct, sliceType, isPtr, sliceValue, read) ==
    IF read.err # Nil THEN unmarshalFailed(rv, read.err)
    ELSE IF Len(read.records) = 0
    THEN unmarshalReturn(rv, singleStruct, [sliceValue |-> sliceValue, err |-> Nil])
    ELSE unmarshalFields(rv, singleStruct, sliceType, isPtr, sliceValue, read.records,
                         collectFields(sliceType))

unmarshalRecords(rv, singleStruct, sliceType, isPtr, sliceValue, read) ==
    IF read.err # Nil THEN unmarshalFailed(rv, read.err)
    ELSE IF Len(read.records) = 0 THEN unmarshalFailed(rv, "no records found")
    ELSE unmarshalFields(rv, singleStruct, sliceType, isPtr, sliceValue, read.records,
                         collectFields(sliceType))

\* Unmarshal from the check of sliceType on
unmarshalSlice(data, rv, singleStruct, elemT, sliceValue) ==
    IF (IF elemT.k = "ptr" THEN elemT.elem ELSE elemT).k # "struct"
    THEN unmarshalFailed(rv, "element must be a struct")
    ELSE unmarshalRecords(rv, singleStruct, IF elemT.k = "ptr" THEN elemT.elem ELSE elemT,
                          elemT.k = "ptr", sliceValue, ReadAll(data))

\* Unmarshal(data, v), rv = reflect.ValueOf(v)
Unmarshal(data, rv) ==
    IF rv.t.k = "ptr" /\ rv.d # << >> /\ rv.t.elem.k = "slice"
    THEN unmarshalSlice(data, rv, FALSE, rv.t.elem.elem, rv.d[1])
    ELSE IF rv.t.k = "ptr" /\ rv.d # << >> /\ rv.t.elem.k = "struct"
    THEN unmarshalSlice(data, rv, TRUE, rv.t.elem, << >>)
    ELSE unmarshalFailed(rv, "v must be a pointer to a struct or a slice of struct")

(***************************************************************************)
(* Record types: those of the tests and the README, and variations          *)
(***************************************************************************)
gName == <<"N", "a", "m", "e">>
gExtra == <<"E", "x", "t", "r", "a">>
gID == <<"I", "D">>
sExtraOmit == sExtra \o sComma \o sOmitempty

\* type Simple struct { Name string `csv:"name"` }
Simple == StructOf("Simple", <<Field(gName, sName, FALSE, KString)>>)

\* the README's Extra column: Name string `csv:"name"`; Extra string `csv:"extra,omitempty"`
Optional ==
    StructOf("Optional", <<Field(gName, sName, FALSE, KString),
                           Field(gExtra, sExtraOmit, FALSE, KString)>>)

\* type BaseRecord struct { ID int64 `csv:"id"`; Name string `csv:"name"` }
BaseRecord ==
    StructOf("BaseRecord", <<Field(gID, sID, FALSE, KInt64),
                             Field(gName, sName, FALSE, KString)>>)

\* type ExtendedRecord struct { BaseRecord; Extra string `csv:"extra"` }
ExtendedRecord ==
    StructOf("ExtendedRecord", <<Field(<<"B">>, << >>, TRUE, BaseRecord),
                                 Field(gExtra, sExtra, FALSE, KString)>>)

\* type PtrExtendedRecord struct { *PtrBaseRecord; Extra string `csv:"extra,omitempty"` }
PtrExtendedRecord ==
    StructOf("PtrExtendedRecord", <<Field(<<"P">>, << >>, TRUE, PtrTo(BaseRecord)),
                                    Field(gExtra, sExtraOmit, FALSE, KString)>>)

\* one field of every supported kind; N has no tag, the others are omitempty
Kinds ==
    StructOf("Kinds",
        <<Field(<<"N">>, << >>, FALSE, KInt8),
          Field(<<"U">>, <<"u">> \o sComma \o sOmitempty, FALSE, KUint8),
          Field(<<"F">>, <<"f">> \o sComma \o sSpace \o sOmitempty, FALSE, KFloat64),
          Field(<<"B">>, <<"b">> \o sComma \o sOmitempty, FALSE, KBool),
          Field(<<"A">>, <<"a", "t">> \o sComma \o sOmitempty, FALSE, TimeType)>>)

\* two fields under one column name
Dup ==
    StructOf("Dup", <<Field(<<"A">>, <<"x">>, FALSE, KString),
                      Field(<<"B">>, <<"x">>, FALSE, KString)>>)

\* a field of a kind without conversion
Unsupported ==
    StructOf("Unsupported", <<Field(gName, sName, FALSE, KString),
                              Field(<<"T">>, <<"t", "a", "g", "s">>, FALSE, SliceOf(KString))>>)

\* embedding by value and by pointer, two levels deep, and an anonymous
\* field that is no struct (type MyInt int64):
\* type Leaf struct { Q uint8 `csv:"q"` }
\* type Inner struct { Y string `csv:"y"`; *Leaf }
\* type Mid struct { X int64 `csv:"x"`; Inner; W bool `csv:"w"` }
\* type Deep struct { A string `csv:"a"`; *Mid; MyInt; Z string `csv:"z"` }
Leaf == StructOf("Leaf", <<Field(<<"Q">>, <<"q">>, FALSE, KUint8)>>)
Inner ==
    StructOf("Inner", <<Field(<<"Y">>, <<"y">>, FALSE, KString),
                        Field(<<"L">>, << >>, TRUE, PtrTo(Leaf))>>)
Mid ==
    StructOf("Mid", <<Field(<<"X">>, <<"x">>, FALSE, KInt64),
                      Field(<<"I">>, << >>, TRUE, Inner),
                      Field(<<"W">>, <<"w">>, FALSE, KBool)>>)
Deep ==
    StructOf("Deep", <<Field(<<"A">>, <<"a">>, FALSE, KString),
                       Field(<<"M">>, << >>, TRUE, PtrTo(Mid)),
                       Field(<<"M", "y", "I", "n", "t">>, << >>, TRUE, KInt64),
                       Field(<<"Z">>, <<"z">>, FALSE, KString)>>)

\* fields that are no scalar and are not embedded: a record and a map
\* type Nested struct { Name string `csv:"name"`; S Leaf `csv:"s"`; M map[string]int `csv:"m"` }
Nested ==
    StructOf("Nested", <<Field(gName, sName, FALSE, KString),
                         Field(<<"S">>, <<"s">>, FALSE, Leaf),
                         Field(<<"M">>, <<"m">>, FALSE, KMap)>>)

\* a field that is a pointer to a scalar
\* type PtrField struct { Name string `csv:"name"`; P *int64 `csv:"p"` }
PtrField ==
    StructOf("PtrField", <<Field(gName, sName, FALSE, KString),
                           Field(<<"P">>, <<"p">>, FALSE, PtrTo(KInt64))>>)

RecordTypes ==
    {Simple, Optional, ExtendedRecord, PtrExtendedRecord, Kinds, Dup, Unsupported, Deep,
     Nested, PtrField}

\* the record values used of each type
RecordValues(t) ==
    CASE t = Simple -> {<< << >> >>, << <<"A", "l">> >>}
      [] t = Optional -> {<< << >>, << >> >>, << <<"A">>, << >> >>, << <<"B">>, <<"x">> >>}
      [] t = ExtendedRecord ->
            {<< <<1, <<"A">> >>, <<"E", "1">> >>, << <<0, << >> >>, << >> >>,
             << <<-20, <<"B">> >>, << >> >>}
      [] t = PtrExtendedRecord ->
            {<< << >>, <<"E">> >>, << << >>, << >> >>, << << <<7, <<"A">> >> >>, << >> >>}
      [] t = Kinds ->
            {<<0, 0, Flt(0, 0), FALSE, 0>>, <<-128, 200, Flt(-15, 1), TRUE, 7>>,
             <<5, 0, Flt(25, 2), FALSE, 0>>}
      [] t = Dup -> {<< <<"p">>, <<"q">> >>, << << >>, << >> >>}
      [] t = Unsupported -> {<< <<"A">>, << >> >>}
      [] t = Nested -> {<< <<"A">>, <<0>>, << >> >>}
      [] t = PtrField -> {<< <<"A">>, << >> >>, << <<"B">>, <<5>> >>}
      [] t = Deep ->
            {<< <<"a">>, << >>, 3, << >> >>,
             << << >>, << <<4, << <<"y">>, << >> >>, TRUE>> >>, 0, <<"z">> >>,
             << <<"a">>, << <<0, << << >>, << <<9>> >> >>, FALSE>> >>, 0, << >> >>}

\* the annotation strings collectFields is tried on
TagSet ==
    {<< >>, <<"n">>, <<"n">> \o sComma \o sOmitempty, sComma \o sOmitempty,
     <<" ", "n", " ", ",", "\t">> \o sOmitempty \o sSpace,
     <<"n", ",", "x", ",">> \o sOmitempty, <<"n", ",">> \o sOmitempty \o <<",", "x">>,
     <<"n", ",", "o", "m", "i", "t">>, sOmitempty, <<"n", ",">>, sComma, sSpace,
     <<" ", ",", " ", ",">> \o sOmitempty}

\* type In struct { B int64 `csv:"<tag2>"` }
\* type Tagged struct { A string `csv:"<tag1>"`; In }
Tagged(tag1, tag2) ==
    StructOf("Tagged",
        <<Field(<<"A">>, tag1, FALSE, KString),
          Field(<<"I">>, << >>, TRUE,
                StructOf("In", <<Field(<<"B">>, tag2, FALSE, KInt64)>>))>>)

(***************************************************************************)
(* Documents                                                                *)
(***************************************************************************)
Col(name, cells) == [name |-> name, cells |-> cells]

sTime7 == sTimePrefix \o <<"0", "7", "Z">>

\* the headers tried for a target type, each column with the cells tried
\* under it
Headers(t) ==
    CASE t = Simple ->
            {<<Col(sName, {<< >>, <<"A", "l">>})>>,
             <<Col(sName, {<<"A", "l">>}), Col(sExtra, {<<"z", "z", "z">>, << >>})>>}
      [] t = Optional -> {<<Col(sExtra, {<< >>, <<"x">>}), Col(sName, {<<"A">>})>>}
      [] t = ExtendedRecord ->
            {<<Col(sID, {<<"1">>, <<"x">>}), Col(sName, {<<"A">>}), Col(sExtra, {<<"E">>})>>}
      [] t = PtrExtendedRecord -> {<<Col(sExtra, {<<"E">>}), Col(sID, {<<"2">>, << >>})>>}
      [] t = Kinds ->
            {<<Col(<<"N">>, {<<"5">>, <<"3", "0", "0">>}),
               Col(<<"b">>, {sTrue, <<"m", "a", "y", "b", "e">>})>>,
             <<Col(<<"u">>, {<<"7">>, <<"2", "5", "6">>}),
               Col(<<"f">>, {<<"-", "0", ".", "5", "0">>}),
               Col(<<"a", "t">>, {sTime7})>>,
             <<Col(<<"u">>, {<< >>, <<"-", "1">>}),
               Col(<<"f">>, {<< >>, <<"x">>}),
               Col(<<"b">>, {<< >>})>>}
      [] t = Dup ->
            {<<Col(<<"x">>, {<<"p">>}), Col(<<"x">>, {<<"q">>, << >>})>>, <<Col(<<"x">>, {<<"p">>})>>}
      [] t = Unsupported -> {<<Col(sName, {<<"A">>}), Col(<<"t", "a", "g", "s">>, {<<"t">>})>>}
      [] t = Nested ->
            {<<Col(sName, {<<"A">>}), Col(<<"s">>, {<<"1">>})>>, <<Col(<<"m">>, {<<"1">>})>>}
      [] t = PtrField -> {<<Col(sName, {<<"A">>}), Col(<<"p">>, {<<"5">>, <<"x">>})>>}
      [] t = Deep ->
            {<<Col(<<"q">>, {<<"9">>}), Col(<<"z">>, {<<"z">>}),
               Col(<<"M", "y", "I", "n", "t">>, {<<"3">>})>>}

HeaderRow(h) == [i \in 1..Len(h) |-> h[i].name]

\* the rows with one cell under every column
FullRows(h) ==
    {r \in [1..Len(h) -> UNION {h[i].cells : i \in 1..Len(h)}] :
        \A i \in 1..Len(h) : r[i] \in h[i].cells}

\* the rows that lack the last cell, and those with one cell more
ShortRows(h) == {SubSeq(r, 1, Len(r) - 1) : r \in FullRows(h)} \ {<< >>, << << >> >>}
LongRows(h) == {Append(r, <<"+">>) : r \in FullRows(h)}

\* the lines tried after the header: rows, and the blank line
Lines(h) == FullRows(h) \cup ShortRows(h) \cup LongRows(h) \cup {<< >>}

\* the documents tried: no line at all, one blank line, or the header and up
\* to MaxRows lines
Docs(h) ==
    {<< >>, << << >> >>} \cup {<<HeaderRow(h)>> \o rows : rows \in SeqsUpTo(Lines(h), MaxRows)}

\* a record the target holds before the call
Existing(t) == CHOOSE v \in RecordValues(t) : v # Zero(t)

(***************************************************************************)
(* The callers: one call of collectFields, Marshal or Unmarshal at a time,  *)
(* and the README's Marshal followed by Unmarshal of the bytes returned     *)
(***************************************************************************)
\* a pointer to a record value, or nil
PtrValues(t) == {<< >>} \cup {<<v>> : v \in RecordValues(t)}

\* no file is written or read by the callers of package csv
NoFs ==
    /\ fsPath = << >>
    /\ now = 0
    /\ files = << >>
    /\ last = << >>

Init ==
    /\ pc = "idle"
    /\ call = [op |-> "none"]
    /\ ret = [err |-> Nil]
    /\ NoFs

DoMarshal(rv) ==
    /\ pc' = "Marshal"
    /\ call' = [op |-> "Marshal", rv |-> rv]
    /\ ret' = Marshal(rv)
    /\ UNCHANGED fsVars

\* Marshal(r)
MarshalStruct ==
    /\ pc = "idle"
    /\ \E t \in RecordTypes : \E v \in RecordValues(t) : DoMarshal(Val(t, v))

\* Marshal(&r), Marshal((*T)(nil))
MarshalStructPtr ==
    /\ pc = "idle"
    /\ \E t \in RecordTypes : \E p \in PtrValues(t) : DoMarshal(Val(PtrTo(t), p))

\* Marshal([]T{...})
MarshalSlice ==
    /\ pc = "idle"
    /\ \E t \in RecordTypes : \E xs \in SeqsUpTo(RecordValues(t), MaxRecs) :
           DoMarshal(Val(SliceOf(t), xs))

\* Marshal([]*T{...}), nil elements included
MarshalSliceOfPtr ==
    /\ pc = "idle"
    /\ \E t \in RecordTypes : \E xs \in SeqsUpTo(PtrValues(t), MaxRecs) :
           DoMarshal(Val(SliceOf(PtrTo(t)), xs))

\* Marshal(&[]T{...}), Marshal((*[]T)(nil))
MarshalPtrSlice ==
    /\ pc = "idle"
    /\ \E t \in RecordTypes :
           \/ \E xs \in SeqsUpTo(RecordValues(t), MaxRecs) :
                  DoMarshal(Val(PtrTo(SliceOf(t)), <<xs>>))
           \/ DoMarshal(Val(PtrTo(SliceOf(t)), << >>))

\* Marshal(&[]*T{...})
MarshalPtrSliceOfPtr ==
    /\ pc = "idle"
    /\ \E t \in RecordTypes : \E xs \in SeqsUpTo(PtrValues(t), MaxRecs) :
           DoMarshal(Val(PtrTo(SliceOf(PtrTo(t))), <<xs>>))

\* Marshal of what is no record, record pointer or slice of them
MarshalOther ==
    /\ pc = "idle"
    /\ \/ DoMarshal(Val(KInvalid, << >>))
       \/ \E n \in {0, 5} : DoMarshal(Val(KInt64, n))
       \/ \E p \in {<< >>, <<5>>} : DoMarshal(Val(PtrTo(KInt64), p))
       \/ \E xs \in SeqsUpTo({0, 5}, MaxRecs) : DoMarshal(Val(SliceOf(KInt64), xs))
       \/ \E xs \in SeqsUpTo({0, 5}, MaxRecs) : DoMarshal(Val(PtrTo(SliceOf(KInt64)), <<xs>>))
       \/ \E t \in RecordTypes : \E p \in PtrValues(t) :
              DoMarshal(Val(PtrTo(PtrTo(t)), <<p>>))
       \/ \E t \in RecordTypes : \E xs \in SeqsUpTo(PtrValues(t), 1) :
              DoMarshal(Val(SliceOf(PtrTo(PtrTo(t))), [i \in 1..Len(xs) |-> <<xs[i]>>]))
       \/ DoMarshal(Val(KMap, << >>))

DoUnmarshal(data, rv) ==
    /\ pc' = "Unmarshal"
    /\ call' = [op |-> "Unmarshal", data |-> data, rv |-> rv]
    /\ ret' = Unmarshal(data, rv)
    /\ UNCHANGED fsVars

\* var s []T; Unmarshal(data, &s), s empty or holding a record
UnmarshalSlice ==
    /\ pc = "idle"
    /\ \E t \in RecordTypes : \E h \in Headers(t) : \E data \in Docs(h) :
           \E s \in {<< >>, <<Existing(t)>>} :
               DoUnmarshal(data, Val(PtrTo(SliceOf(t)), <<s>>))

\* var s []*T; Unmarshal(data, &s)
UnmarshalSliceOfPtr ==
    /\ pc = "idle"
    /\ \E t \in RecordTypes : \E h \in Headers(t) : \E data \in Docs(h) :
           DoUnmarshal(data, Val(PtrTo(SliceOf(PtrTo(t))), << << >> >>))

\* var r T; Unmarshal(data, &r), r holding a record
UnmarshalStruct ==
    /\ pc = "idle"
    /\ \E t \in RecordTypes : \E h \in Headers(t) : \E data \in Docs(h) :
           DoUnmarshal(data, Val(PtrTo(t), <<Existing(t)>>))

\* Unmarshal into what is no pointer to a record or to a slice of records
UnmarshalOther ==
    /\ pc = "idle"
    /\ \E h \in Headers(Simple) : \E data \in Docs(h) :
           \/ DoUnmarshal(data, Val(KInvalid, << >>))
           \/ DoUnmarshal(data, Val(Simple, Existing(Simple)))
           \/ DoUnmarshal(data, Val(SliceOf(Simple), <<Existing(Simple)>>))
           \/ DoUnmarshal(data, Val(PtrTo(Simple), << >>))
           \/ DoUnmarshal(data, Val(PtrTo(SliceOf(Simple)), << >>))
           \/ DoUnmarshal(data, Val(PtrTo(KInt64), <<5>>))
           \/ DoUnmarshal(data, Val(PtrTo(SliceOf(KInt64)), << <<5>> >>))
           \/ DoUnmarshal(data, Val(PtrTo(PtrTo(Simple)), << <<Existing(Simple)>> >>))

DoCollectFields(t) ==
    /\ pc' = "collectFields"
    /\ call' = [op |-> "collectFields", t |-> t]
    /\ ret' = collectFields(t)
    /\ UNCHANGED fsVars

\* collectFields on the record types, and on every pair of annotations
CollectFields ==
    /\ pc = "idle"
    /\ \/ \E t \in RecordTypes : DoCollectFields(t)
       \/ \E tag1 \in TagSet : \E tag2 \in TagSet : DoCollectFields(Tagged(tag1, tag2))

\* decoded := []T(nil); Unmarshal(data, &decoded) on the bytes Marshal(x)
\* returned for a slice x
RoundTrip ==
    /\ pc = "Marshal"
    /\ call.rv.t.k = "slice"
    /\ ret.err = Nil
    /\ pc' = "RoundTrip"
    /\ call' = [op |-> "RoundTrip", x |-> call.rv, data |-> ret.data,
                rv |-> Val(PtrTo(call.rv.t), << << >> >>)]
    /\ ret' = Unmarshal(ret.data, Val(PtrTo(call.rv.t), << << >> >>))
    /\ UNCHANGED fsVars

\* package cond: Or(vals...) for a comparable type with the zero value zero
\* the mutant of Or that returns the last value that is not zero
RECURSIVE OrLast(_, _)
OrLast(zero, vals) ==
    IF vals = << >> THEN zero
    ELSE IF vals[Len(vals)] # zero THEN vals[Len(vals)]
    ELSE OrLast(zero, SubSeq(vals, 1, Len(vals) - 1))

RECURSIVE Or(_, _)
Or(zero, vals) ==
    IF vals = << >> THEN zero
    ELSE IF Head(vals) # zero THEN Head(vals)
    ELSE Or(zero, Tail(vals))

\* the argument values of TestOr and of the README, by type
OrValues(t) ==
    CASE t = KInt64 -> {0, 1, 2}
      [] t = KBool -> {FALSE, TRUE}
      [] t = KString -> {<< >>, <<"g", "o">>, <<"l", "a", "n", "g">>}

\* Or(vals...)
CallOr ==
    /\ pc = "idle"
    /\ \E t \in {KInt64, KBool, KString} : \E vals \in SeqsUpTo(OrValues(t), MaxArgs) :
           /\ pc' = "Or"
           /\ call' = [op |-> "Or", t |-> t, vals |-> vals]
           /\ ret' = [err |-> Nil, v |-> Or(Zero(t), vals)]
    /\ UNCHANGED fsVars

Return ==
    /\ pc # "idle"
    /\ pc' = "idle"
    /\ call' = [op |-> "none"]
    /\ ret' = [err |-> Nil]
    /\ UNCHANGED fsVars

Next ==
    \/ MarshalStruct
    \/ MarshalStructPtr
    \/ MarshalSlice
    \/ MarshalSliceOfPtr
    \/ MarshalPtrSlice
    \/ MarshalPtrSliceOfPtr
    \/ MarshalOther
    \/ UnmarshalSlice
    \/ UnmarshalSliceOfPtr
    \/ UnmarshalStruct
    \/ UnmarshalOther
    \/ CollectFields
    \/ RoundTrip
    \/ CallOr
    \/ Return

Spec == Init /\ [][Next]_vars

(***************************************************************************)
(* Package fs: WriteFile and ReadFile with the codec chosen by the          *)
(* extension, on one path pattern.  A path is a sequence of characters; the *)
(* bytes of a file are [enc, doc]: for csv the document Marshal returned,   *)
(* for json and yaml (external packages) the value itself under the name of *)
(* the encoding.                                                            *)
(***************************************************************************)
\* the byte of a character, for the characters of the paths used
Ord(c) ==
    CASE c = "*" -> 42 [] c = "." -> 46 [] c = "/" -> 47
      [] c \in {Digits[n] : n \in 1..10} -> 47 + CHOOSE n \in 1..10 : Digits[n] = c
      [] c = "_" -> 95 [] c = "c" -> 99 [] c = "d" -> 100 [] c = "j" -> 106
      [] c = "l" -> 108 [] c = "m" -> 109 [] c = "n" -> 110 [] c = "o" -> 111
      [] c = "s" -> 115 [] c = "t" -> 116 [] c = "v" -> 118 [] c = "x" -> 120
      [] c = "y" -> 121

\* a < b on Go strings: byte by byte
RECURSIVE StringLess(_, _)
StringLess(a, b) ==
    IF b = << >> THEN FALSE
    ELSE IF a = << >> THEN TRUE
    ELSE IF Head(a) # Head(b) THEN Ord(Head(a)) < Ord(Head(b))
    ELSE StringLess(Tail(a), Tail(b))

\* time.Now().Format("20060102_150405") at the reading t of the local wall
\* clock: fixed width, zero padded; the readings of the model differ in the
\* seconds only
sStampPrefix == <<"2", "0", "0", "6", "0", "1", "0", "2", "_", "1", "5", "0", "4">>
Format(t) == sStampPrefix \o <<Digits[(t \div 10) + 1], Digits[(t % 10) + 1]>>

\* strings.Replace(s, "*", timestamp, -1)
RECURSIVE Replace(_, _)
Replace(s, timestamp) ==
    IF s = << >> THEN << >>
    ELSE (IF Head(s) = "*" THEN timestamp ELSE <<Head(s)>>) \o Replace(Tail(s), timestamp)

TimestampFileName(p, t) == Replace(p, Format(t))

\* filepath.Ext: from the last dot of the last element of the path on
Ext(p) ==
    IF \E i \in 1..Len(p) : p[i] = "." /\ \A j \in i..Len(p) : p[j] # "/"
    THEN SubSeq(p, CHOOSE i \in 1..Len(p) :
                       /\ p[i] = "."
                       /\ \A j \in (i + 1)..Len(p) : p[j] \notin {".", "/"},
                Len(p))
    ELSE << >>

\* the switch on the extension, in WriteFile and in ReadFile
CodecOf(ext) ==
    CASE ext = <<".", "c", "s", "v">> -> "csv"
      [] ext = <<".", "j", "s", "o", "n">> -> "json"
      [] ext \in {<<".", "y", "a", "m", "l">>, <<".", "y", "m", "l">>} -> "yaml"
      [] OTHER -> Nil

\* marshal[0](data)
EncodeWith(codec, data) ==
    IF codec = "csv"
    THEN [bs |-> [enc |-> "csv", doc |-> Marshal(data).data], err |-> Marshal(data).err]
    ELSE [bs |-> [enc |-> codec, doc |-> data], err |-> Nil]

\* unmarshal[0](data, out)
DecodeWith(codec, bs, out) ==
    IF codec = "csv"
    THEN IF bs.enc = "csv" THEN Unmarshal(bs.doc, out)
         ELSE [err |-> "record on line", v |-> out.d]
    ELSE IF bs.enc = codec THEN [err |-> Nil, v |-> <<bs.doc.d>>]
         ELSE [err |-> "invalid character", v |-> out.d]

\* filepath.Match for patterns of literal characters and stars: a star
\* matches any sequence of characters other than the separator
RECURSIVE Match(_, _)
Match(pattern, name) ==
    IF pattern = << >> THEN name = << >>
    ELSE IF Head(pattern) = "*"
         THEN \/ Match(Tail(pattern), name)
              \/ name # << >> /\ Head(name) # "/" /\ Match(pattern, Tail(name))
         ELSE name # << >> /\ Head(name) = Head(pattern) /\ Match(Tail(pattern), Tail(name))

\* filepath.Glob
Glob(pattern, dir) == {name \in DOMAIN dir : Match(pattern, name)}

\* matches sorted in descending order, the first returned
GetLatestFileByName(pattern, dir) ==
    IF Glob(pattern, dir) = {} THEN [filename |-> << >>, err |-> "no matching files found"]
    ELSE [filename |-> CHOOSE f \in Glob(pattern, dir) :
                           \A g \in Glob(pattern, dir) : ~StringLess(f, g),
          err |-> Nil]

\* fsutil.SaveFile: the file is created, or truncated, and written
SaveFile(dir, name, bs) ==
    [n \in DOMAIN dir \cup {name} |-> IF n = name THEN bs ELSE dir[n]]

\* ReadFile(path, out) after the file was found
readFound(filename, dir, out) ==
    IF CodecOf(Ext(filename)) = Nil
    THEN [err |-> "unsupported file format", filename |-> filename, codec |-> Nil,
          data |-> dir[filename], v |-> out.d]
    ELSE [err |-> IF DecodeWith(CodecOf(Ext(filename)), dir[filename], out).err = Nil
                  THEN Nil ELSE "unmarshal data",
          filename |-> filename, codec |-> CodecOf(Ext(filename)),
          data |-> dir[filename],
          v |-> DecodeWith(CodecOf(Ext(filename)), dir[filename], out).v]

\* ReadFile(path, out)
ReadFileResult(pattern, dir, out) ==
    IF GetLatestFileByName(pattern, dir).err # Nil
    THEN [err |-> "get latest file", filename |-> << >>, codec |-> Nil, data |-> << >>,
          v |-> out.d]
    ELSE readFound(GetLatestFileByName(pattern, dir).filename, dir, out)

\* the path patterns, and the name of a file of the directory no pattern matches
PathSet ==
    {<<"d", "_", "*", ".", "c", "s", "v">>, <<"*", ".", "j", "s", "o", "n">>,
     <<"d", "*", "/", "*", ".", "y", "m", "l">>, <<"d", "_", "*", ".", "t", "x", "t">>}
OtherFile == <<"o", ".", "c", "s", "v">>

\* what is written: a slice of records, and a value Marshal rejects
FsData == {Val(SliceOf(Simple), s) : s \in SeqsUpTo(RecordValues(Simple), 1)} \cup {Val(KInt64, 5)}

InitFs ==
    /\ pc = "idle"
    /\ call = [op |-> "none"]
    /\ ret = [err |-> Nil]
    /\ fsPath \in PathSet
    /\ now = MaxNow - 2
    /\ files \in {<< >>, [n \in {OtherFile} |-> [enc |-> "csv", doc |-> << >>]]}
    /\ last = << >>

\* WriteFile(fsPath, data): nothing is written when the extension has no codec
\* or the codec fails
WriteFile ==
    /\ pc = "idle"
    /\ \E data \in FsData :
           /\ pc' = "WriteFile"
           /\ call' = [op |-> "WriteFile", data |-> data]
           /\ IF CodecOf(Ext(fsPath)) = Nil
              THEN ret' = [err |-> "unsupported file format"] /\ UNCHANGED <<files, last>>
              ELSE IF EncodeWith(CodecOf(Ext(fsPath)), data).err # Nil
              THEN /\ ret' = [err |-> EncodeWith(CodecOf(Ext(fsPath)), data).err]
                   /\ UNCHANGED <<files, last>>
              ELSE /\ ret' = [err |-> Nil]
                   /\ files' = SaveFile(files, TimestampFileName(fsPath, now),
                                        EncodeWith(CodecOf(Ext(fsPath)), data).bs)
                   /\ last' = <<[name |-> TimestampFileName(fsPath, now),
                                 bs |-> EncodeWith(CodecOf(Ext(fsPath)), data).bs]>>
    /\ UNCHANGED <<fsPath, now>>

\* var out []Simple; ReadFile(fsPath, &out)
ReadFile ==
    /\ pc = "idle"
    /\ pc' = "ReadFile"
    /\ call' = [op |-> "ReadFile"]
    /\ ret' = ReadFileResult(fsPath, files, Val(PtrTo(SliceOf(Simple)), << << >> >>))
    /\ UNCHANGED fsVars

\* the wall clock goes on by a second
Tick ==
    /\ pc = "idle"
    /\ now < MaxNow
    /\ now' = now + 1
    /\ UNCHANGED <<pc, call, ret, fsPath, files, last>>

\* the local wall clock is set back: daylight saving time ends, or the system
\* clock is adjusted
SetBack ==
    /\ pc = "idle"
    /\ now > MaxNow - 2
    /\ now' = MaxNow - 2
    /\ UNCHANGED <<pc, call, ret, fsPath, files, last>>

NextFs ==
    \/ WriteFile
    \/ ReadFile
    \/ Tick
    \/ SetBack
    \/ Return

SpecFs == InitFs /\ [][NextFs]_vars

(***************************************************************************)
(* Definitions the properties are stated with                               *)
(***************************************************************************)
\* the value at a path of a record, a nil pointer read as the zero value
RECURSIVE ReadLeaf(_, _, _)
ReadLeaf(t, d, path) ==
    IF path = << >> THEN Val(t, d)
    ELSE LET ft == t.fields[Head(path) + 1].type
             fd == d[Head(path) + 1]
         IN  IF ft.k = "ptr"
             THEN ReadLeaf(ft.elem, IF fd = << >> THEN Zero(ft.elem) ELSE fd[1], Tail(path))
             ELSE ReadLeaf(ft, fd, Tail(path))

\* the declared field at a path of a record type
RECURSIVE FieldAt(_, _)
FieldAt(t, path) ==
    IF Len(path) = 1 THEN t.fields[path[1] + 1]
    ELSE FieldAt(EmbeddedType(t.fields[path[1] + 1]), Tail(path))

\* the paths of the leaf fields of a record type, as a set
RECURSIVE LeafPathSet(_)
LeafPathSet(t) ==
    UNION {IF IsEmbeddedStruct(t.fields[i])
           THEN {<<i - 1>> \o p : p \in LeafPathSet(EmbeddedType(t.fields[i]))}
           ELSE {<<i - 1>>} : i \in 1..Len(t.fields)}

\* p comes before q in declaration order, depth first
DeclaredBefore(p, q) ==
    \E n \in 1..Len(p) :
        /\ n <= Len(q)
        /\ p[n] < q[n]
        /\ \A m \in 1..(n - 1) : p[m] = q[m]

\* the kinds with a cell conversion
SupportedKind(t) ==
    t.k \in {"int8", "int64", "uint8", "float64", "bool", "string"} \/ t = TimeType

\* after at most one pointer is followed, as getFieldByIndexPath does
LeafType(t, path) == ReadLeaf(t, Zero(t), path).t

SupportedType(t) == \A p \in LeafPathSet(t) : SupportedKind(LeafType(t, p))

\* empty, per kind: zero number, false, empty text, zero instant
IsEmptyValue(v) ==
    CASE v.t.k \in {"int8", "int64", "uint8"} -> v.d = 0
      [] v.t.k = "float64" -> v.d.m = 0
      [] v.t.k = "bool" -> v.d = FALSE
      [] v.t.k = "string" -> Len(v.d) = 0
      [] v.t = TimeType -> v.d = 0
      [] OTHER -> FALSE

\* the record type of what Marshal is given, and whether it is given a
\* sequence; for the accepted shapes only
IsRecord(t) == t.k = "struct"
IsRecordOrRef(t) == IsRecord(t) \/ (t.k = "ptr" /\ IsRecord(t.elem))
IsSeqShape(t) == t.k = "slice" /\ IsRecordOrRef(t.elem)
IsRefToSeqShape(t) == t.k = "ptr" /\ IsSeqShape(t.elem)
Deref(t) == IF t.k = "ptr" THEN t.elem ELSE t
RecordTypeOf(t) ==
    CASE IsRecordOrRef(t) -> Deref(t)
      [] IsSeqShape(t) -> Deref(t.elem)
      [] IsRefToSeqShape(t) -> Deref(t.elem.elem)

\* the elements of the sequence Marshal is given (a lone record is one)
ElementsOf(rv) ==
    CASE IsRecord(rv.t) -> <<rv.d>>
      [] IsRecordOrRef(rv.t) /\ ~IsRecord(rv.t) -> <<rv.d>>
      [] IsSeqShape(rv.t) -> rv.d
      [] IsRefToSeqShape(rv.t) -> rv.d[1]

ElementIsRef(t) ==
    CASE IsRecordOrRef(t) -> ~IsRecord(t)
      [] IsSeqShape(t) -> t.elem.k = "ptr"
      [] IsRefToSeqShape(t) -> t.elem.elem.k = "ptr"

\* the records Marshal is given, when no reference among them is nil
RecordsOf(rv) ==
    [i \in 1..Len(ElementsOf(rv)) |->
        IF ElementIsRef(rv.t) THEN ElementsOf(rv)[i][1] ELSE ElementsOf(rv)[i]]

MarshalOK == pc = "Marshal" /\ ret.err = Nil

(***************************************************************************)
(* C1  Round trip                                                           *)
(***************************************************************************)
\* the records of the slice the round trip ends with
Decoded == [i \in 1..Len(ret.v[1]) |->
               IF call.rv.t.elem.elem.k = "ptr" THEN ret.v[1][i][1] ELSE ret.v[1][i]]

\* C1: for every slice x of records of a type whose leaf fields all have
\* supported kinds, Unmarshal(Marshal(x)) into an empty slice of the same
\* element type succeeds and yields as many records, in the same order, every
\* leaf field equal to the original (an omit-if-empty field that is empty in
\* every record of x is zero in the original already).
C1_RoundTrip ==
    (pc = "RoundTrip" /\ SupportedType(RecordTypeOf(call.x.t))) =>
        /\ ret.err = Nil
        /\ Len(Decoded) = Len(call.x.d)
        /\ \A i \in 1..Len(Decoded) :
               \A p \in LeafPathSet(RecordTypeOf(call.x.t)) :
                   ReadLeaf(RecordTypeOf(call.x.t), Decoded[i], p) =
                       ReadLeaf(RecordTypeOf(call.x.t), RecordsOf(call.x)[i], p)

(***************************************************************************)
(* C2  Column set                                                           *)
(***************************************************************************)
\* some record of the input holds a non-empty value at the field
NonEmptySomewhere(rv, f) ==
    \E j \in 1..Len(RecordsOf(rv)) :
        ~IsEmptyValue(ReadLeaf(RecordTypeOf(rv.t), RecordsOf(rv)[j], f.indexPath))

\* the leaf fields the Column Set is to hold, in order
ColumnSet(rv) ==
    SelectSeq(collectFields(RecordTypeOf(rv.t)).fields,
              LAMBDA f : ~f.omitempty \/ NonEmptySomewhere(rv, f))

\* C2: in the header Marshal emits, every leaf field not marked omit-if-empty
\* appears for every input, an empty sequence included, and a leaf field
\* marked omit-if-empty appears if and only if at least one record of the
\* input holds a non-empty value at it.
C2_ColumnSet ==
    MarshalOK =>
        /\ Len(ret.headers) = Len(ColumnSet(call.rv))
        /\ \A n \in 1..Len(ret.headers) : ret.headers[n] = ColumnSet(call.rv)[n].name
        /\ ret.records[1] = ret.headers
        /\ ret.data[1] = WriteRecord(ret.headers)

\* a batch of two records or more has an omit-if-empty column kept, which
\* one record leaves empty, and another omit-if-empty column dropped
C2_Witness ==
    /\ MarshalOK
    /\ Len(ElementsOf(call.rv)) >= 2
    /\ \E f \in {collectFields(RecordTypeOf(call.rv.t)).fields[n] :
                    n \in 1..Len(collectFields(RecordTypeOf(call.rv.t)).fields)} :
           /\ f.omitempty
           /\ f.name \in {ret.headers[n] : n \in 1..Len(ret.headers)}
           /\ \E j \in 1..Len(RecordsOf(call.rv)) :
                  IsEmptyValue(ReadLeaf(RecordTypeOf(call.rv.t), RecordsOf(call.rv)[j],
                                        f.indexPath))
    /\ Len(ret.headers) < Len(collectFields(RecordTypeOf(call.rv.t)).fields)

(***************************************************************************)
(* C3  Header order                                                         *)
(***************************************************************************)
\* the index paths, in the order given, are all the leaf paths of t, each
\* once, in declaration order depth first
InDeclarationOrder(t, paths) ==
    /\ {paths[n] : n \in 1..Len(paths)} = LeafPathSet(t)
    /\ \A n \in 1..(Len(paths) - 1) : DeclaredBefore(paths[n], paths[n + 1])

\* C3: with no column suppressed, the header Marshal emits lists the leaf
\* fields in declaration order, the leaf fields of each embedded sub-record
\* (by value or by pointer, at any depth) spliced in depth first at the
\* position of the embedding field, which itself gives no column; embedded
\* {id, name} followed by extra gives id,name,extra.
C3_HeaderOrder ==
    /\ (pc = "collectFields" /\ ~ret.panicked) =>
           InDeclarationOrder(call.t, [n \in 1..Len(ret.fields) |-> ret.fields[n].indexPath])
    /\ (MarshalOK /\ Len(ret.headers) = Cardinality(LeafPathSet(RecordTypeOf(call.rv.t)))) =>
           /\ \A n \in 1..Len(ret.headers) :
                  \E p \in LeafPathSet(RecordTypeOf(call.rv.t)) :
                      /\ Cardinality({q \in LeafPathSet(RecordTypeOf(call.rv.t)) :
                                         DeclaredBefore(q, p)}) = n - 1
                      /\ ret.headers[n] =
                             leafInfo(FieldAt(RecordTypeOf(call.rv.t), p), p).info.name
           /\ RecordTypeOf(call.rv.t) \in {ExtendedRecord, PtrExtendedRecord} =>
                  ret.headers = <<sID, sName, sExtra>>

\* Marshal has emitted the full header of the type with embedding by pointer
\* and by value two levels deep
C3_Witness ==
    /\ MarshalOK
    /\ RecordTypeOf(call.rv.t) = Deep
    /\ Len(ret.headers) = 7
    /\ Len(ret.records) > 1

(***************************************************************************)
(* C4  Column naming                                                        *)
(***************************************************************************)
\* the name an annotation gives: its first comma-separated token, trimmed
AnnotationName(tag) == trimSpace(splitCSVTag(tag)[1])

\* a token after the name is the omit-if-empty marker
AnnotationOmits(tag) ==
    \E n \in 2..Len(splitCSVTag(tag)) : trimSpace(splitCSVTag(tag)[n]) = sOmitempty

\* C4: the column name of a leaf field is the annotation's name (its first
\* comma-separated token, trimmed) when that is given and non-empty, and the
\* field's declared name otherwise, which includes no annotation and an
\* annotation of options only such as ",omitempty"; the suppress-when-empty
\* flag is set if and only if a token after the name is the marker.
C4_ColumnNaming ==
    pc = "collectFields" =>
        /\ ~ret.panicked
        /\ \A n \in 1..Len(ret.fields) :
               LET field == FieldAt(call.t, ret.fields[n].indexPath)
               IN  /\ ret.fields[n].name =
                          IF AnnotationName(field.tag) # << >>
                          THEN AnnotationName(field.tag)
                          ELSE field.name
                   /\ ret.fields[n].omitempty = AnnotationOmits(field.tag)

(***************************************************************************)
(* C5  Input-shape equivalence                                              *)
(***************************************************************************)
\* Marshal is given exactly one record, no nil reference, in one of the five
\* shapes
OneRecordGiven(rv) ==
    /\ IsRecordOrRef(rv.t) \/ IsSeqShape(rv.t) \/ IsRefToSeqShape(rv.t)
    /\ rv.d # << >>
    /\ Len(ElementsOf(rv)) = 1
    /\ ElementsOf(rv)[1] # << >>

\* the document of the header row and the one data row of record r of type t
OneRowDocument(t, r) == Marshal(Val(SliceOf(t), <<r>>))

\* C5: for every record r of a type whose leaf fields have supported kinds,
\* Marshal(r), Marshal(&r), Marshal([r]), Marshal([&r]) and Marshal(&[r]) all
\* succeed and return the identical document: the header row followed by
\* exactly one data row for r.
C5_ShapeEquivalence ==
    (pc = "Marshal" /\ OneRecordGiven(call.rv) /\ SupportedType(RecordTypeOf(call.rv.t))) =>
        /\ ret.err = Nil
        /\ ret.data = OneRowDocument(RecordTypeOf(call.rv.t), RecordsOf(call.rv)[1]).data
        /\ Len(ret.records) = 2
        /\ ret.records[1] = ret.headers
        /\ Len(ret.records[2]) = Len(ret.headers)
        /\ ret.data = <<WriteRecord(ret.records[1]), WriteRecord(ret.records[2])>>

\* Marshal has returned the document of a reference to a sequence of one
\* record, with a data row that is not blank
C5_Witness ==
    /\ MarshalOK
    /\ IsRefToSeqShape(call.rv.t)
    /\ OneRecordGiven(call.rv)
    /\ Len(ret.data) = 2
    /\ ret.data[2] # << >>
    /\ Len(ret.headers) >= 2

(***************************************************************************)
(* C6  Shapes Marshal rejects                                               *)
(***************************************************************************)
ShapeErrors ==
    {"v must be a struct, a struct pointer or a slice of struct", "element must be a struct"}

\* the four shapes the sentence lists
ListedShape(t) == IsRecordOrRef(t) \/ IsSeqShape(t)

\* the input is an absent reference, typed or not
NilInput(rv) == rv.t.k = "invalid" \/ (rv.t.k = "ptr" /\ rv.d = << >>)

\* C6 as stated: Marshal fails with a ShapeError, and returns no bytes, for
\* every input that is not a single record, a reference to a single record, a
\* sequence of records or a sequence of record references.
C6_AsStated ==
    (pc = "Marshal" /\ ~ListedShape(call.rv.t)) =>
        /\ ret.err \in ShapeErrors
        /\ ret.data = << >>

\* C6: Marshal fails and returns no bytes for every input that is not a
\* record, a reference to a record, a sequence of records or of record
\* references, or a reference to such a sequence: with the nil-input error
\* when the input is an absent reference, with a ShapeError otherwise.  A
\* reference to a sequence of records or of record references is accepted: it
\* never gives a ShapeError.
C6_Shapes ==
    /\ (pc = "Marshal" /\ ~ListedShape(call.rv.t) /\ ~IsRefToSeqShape(call.rv.t)) =>
           /\ ret.data = << >>
           /\ IF NilInput(call.rv) THEN ret.err = "v is nil" ELSE ret.err \in ShapeErrors
    /\ (pc = "Marshal" /\ (ListedShape(call.rv.t) \/ IsRefToSeqShape(call.rv.t))) =>
           ret.err \notin ShapeErrors

\* Marshal has turned down a sequence of what is no record, by the check of
\* the element type
C6_Witness ==
    /\ pc = "Marshal"
    /\ call.rv.t.k = "slice"
    /\ ~ListedShape(call.rv.t)
    /\ Len(call.rv.d) > 0
    /\ ret.err = "element must be a struct"
    /\ ret.data = << >>

(***************************************************************************)
(* C7  Nil rejection                                                        *)
(***************************************************************************)
\* the sequence of record references Marshal is given, directly or by
\* reference, holds nil at some position
NilElementGiven(rv) ==
    \/ /\ IsSeqShape(rv.t)
       /\ rv.t.elem.k = "ptr"
       /\ \E i \in 1..Len(rv.d) : rv.d[i] = << >>
    \/ /\ IsRefToSeqShape(rv.t)
       /\ rv.t.elem.elem.k = "ptr"
       /\ rv.d # << >>
       /\ \E i \in 1..Len(rv.d[1]) : rv.d[1][i] = << >>

\* C7: Marshal of an absent top-level reference, or of a sequence of record
\* references in which an element at any position is nil, whatever the other
\* elements and the omit-if-empty fields of the type, returns an error and no
\* output bytes at all: the rows of the elements before the nil one are never
\* returned.
C7_NilRejection ==
    (pc = "Marshal" /\ (NilInput(call.rv) \/ NilElementGiven(call.rv))) =>
        /\ ret.err # Nil
        /\ ret.data = << >>
        /\ NilInput(call.rv) => ret.err = "v is nil"

\* Marshal has turned down a sequence whose first reference is a record with
\* a non-empty omit-if-empty field and whose last reference is nil
C7_Witness ==
    /\ pc = "Marshal"
    /\ NilElementGiven(call.rv)
    /\ IsSeqShape(call.rv.t)
    /\ Len(call.rv.d) >= 2
    /\ call.rv.d[1] # << >>
    /\ call.rv.d[Len(call.rv.d)] = << >>
    /\ \E n \in 1..Len(collectFields(RecordTypeOf(call.rv.t)).fields) :
           /\ collectFields(RecordTypeOf(call.rv.t)).fields[n].omitempty
           /\ ~IsEmptyValue(ReadLeaf(RecordTypeOf(call.rv.t), call.rv.d[1][1],
                  collectFields(RecordTypeOf(call.rv.t)).fields[n].indexPath))
    /\ ret.err = "slice element is nil"
    /\ ret.data = << >>

(***************************************************************************)
(* Documents and targets, as the properties of Unmarshal speak of them      *)
(***************************************************************************)
\* the rows of a document: its lines that are not blank
RowsOf(data) == SelectSeq(data, LAMBDA line : line # << >>)
HeaderOf(data) == RowsOf(data)[1]
DataRowsOf(data) == IF RowsOf(data) = << >> THEN << >> ELSE Tail(RowsOf(data))

\* every row has as many cells as the header
Rectangular(data) ==
    \A k \in 1..Len(RowsOf(data)) : Len(RowsOf(data)[k]) = Len(HeaderOf(data))

\* the target is a reference to a record, or to a sequence of records or of
\* record references
SingleTarget(rv) == rv.t.k = "ptr" /\ rv.d # << >> /\ IsRecord(rv.t.elem)
SeqTarget(rv) == IsRefToSeqShape(rv.t) /\ rv.d # << >>

\* the column name of the leaf field at path p of record type t
NameOf(t, p) == leafInfo(FieldAt(t, p), p).info.name

\* a leaf field of t has the column name
HasField(t, header) == \E p \in LeafPathSet(t) : NameOf(t, p) = header

\* the leaf field a column of that name is assigned to: the last declared
FieldOf(t, header) ==
    CHOOSE p \in LeafPathSet(t) :
        /\ NameOf(t, p) = header
        /\ \A q \in LeafPathSet(t) : NameOf(t, q) = header => (q = p \/ DeclaredBefore(q, p))

\* the cells a row has under header columns
Shared(header, row) == 1..(IF Len(row) < Len(header) THEN Len(row) ELSE Len(header))

\* every cell of the row under a column with a field converts to the field's kind
RowConvertible(t, header, row) ==
    \A i \in Shared(header, row) :
        HasField(t, header[i]) =>
            ParseValue(LeafType(t, FieldOf(t, header[i])), row[i]).err = Nil

\* the columns of the row assigned to the leaf field at p
ColumnsOf(t, header, row, p) ==
    {i \in Shared(header, row) : HasField(t, header[i]) /\ FieldOf(t, header[i]) = p}

\* what the leaf field at p is to hold after the row is decoded: the cell of
\* the last column assigned to it, converted, or the zero value
ExpectedLeaf(t, header, row, p) ==
    IF ColumnsOf(t, header, row, p) = {} THEN ReadLeaf(t, Zero(t), p).d
    ELSE ParseValue(LeafType(t, p),
                    row[CHOOSE i \in ColumnsOf(t, header, row, p) :
                            \A j \in ColumnsOf(t, header, row, p) : j <= i]).d

\* record r of type t is what the row decodes to
DecodedFrom(t, header, row, r) ==
    \A p \in LeafPathSet(t) : ReadLeaf(t, r, p).d = ExpectedLeaf(t, header, row, p)

\* the records Unmarshal added to the target sequence
Added(rv, v) ==
    [k \in 1..(Len(v[1]) - Len(rv.d[1])) |->
        IF rv.t.elem.elem.k = "ptr" THEN v[1][Len(rv.d[1]) + k][1] ELSE v[1][Len(rv.d[1]) + k]]

\* the target holds, after what it held, one record per data row, decoded
\* from that row; a single-record target holds the first
TargetDecoded(rv, data, v) ==
    IF SingleTarget(rv)
    THEN DecodedFrom(rv.t.elem, HeaderOf(data), DataRowsOf(data)[1], v[1])
    ELSE /\ Len(Added(rv, v)) = Len(DataRowsOf(data))
         /\ SubSeq(v[1], 1, Len(rv.d[1])) = rv.d[1]
         /\ \A k \in 1..Len(DataRowsOf(data)) :
                DecodedFrom(RecordTypeOf(rv.t), HeaderOf(data), DataRowsOf(data)[k],
                            Added(rv, v)[k])

\* Unmarshal was given a target of an accepted shape and a document with a
\* header, and data rows whose cells convert; at least one for a single record
Decodable(rv, data) ==
    /\ SingleTarget(rv) \/ SeqTarget(rv)
    /\ Len(RowsOf(data)) >= (IF SingleTarget(rv) THEN 2 ELSE 1)
    /\ \A k \in 1..Len(DataRowsOf(data)) :
           RowConvertible(RecordTypeOf(rv.t), HeaderOf(data), DataRowsOf(data)[k])

(***************************************************************************)
(* C8  Row-length tolerance                                                 *)
(***************************************************************************)
\* some data row is shorter or longer than the header
Ragged(data) ==
    \E k \in 1..Len(DataRowsOf(data)) : Len(DataRowsOf(data)[k]) # Len(HeaderOf(data))

\* C8: a data row with fewer cells than the header has columns is decoded
\* without error, the fields of the columns that have no cell in the row
\* staying at their zero value; a data row with more cells than the header is
\* decoded without error, the cells beyond the header's length ignored.
C8_RowLengthTolerance ==
    (pc = "Unmarshal" /\ Decodable(call.rv, call.data) /\ Ragged(call.data)) =>
        /\ ret.err = Nil
        /\ TargetDecoded(call.rv, call.data, ret.v)

(***************************************************************************)
(* C9  Extra-column tolerance                                               *)
(***************************************************************************)
\* a header column has a name no leaf field of the type has
ExtraColumn(t, data) ==
    \E i \in 1..Len(HeaderOf(data)) : ~HasField(t, HeaderOf(data)[i])

\* C9: a header column whose name matches no leaf field of the target type is
\* ignored for every data row, whatever text its cells hold: decoding
\* succeeds, and the columns that match are still assigned to their fields.
C9_ExtraColumns ==
    (/\ pc = "Unmarshal"
     /\ Decodable(call.rv, call.data)
     /\ Rectangular(call.data)
     /\ ExtraColumn(RecordTypeOf(call.rv.t), call.data)) =>
        /\ ret.err = Nil
        /\ TargetDecoded(call.rv, call.data, ret.v)

\* Unmarshal has decoded, into a sequence, a row with text under a column
\* that has no field and text under one that has
C9_Witness ==
    /\ pc = "Unmarshal"
    /\ SeqTarget(call.rv)
    /\ Decodable(call.rv, call.data)
    /\ Rectangular(call.data)
    /\ Len(DataRowsOf(call.data)) >= 1
    /\ \E i, j \in 1..Len(HeaderOf(call.data)) :
           /\ ~HasField(RecordTypeOf(call.rv.t), HeaderOf(call.data)[i])
           /\ DataRowsOf(call.data)[1][i] # << >>
           /\ HasField(RecordTypeOf(call.rv.t), HeaderOf(call.data)[j])
           /\ DataRowsOf(call.data)[1][j] # << >>
    /\ ret.err = Nil
    /\ Len(Added(call.rv, ret.v)) = Len(DataRowsOf(call.data))

(***************************************************************************)
(* C10  Single-record target                                                *)
(***************************************************************************)
\* C10 as stated: for every document with a header and one or more data
\* rows, Unmarshal into a reference to a single record sets the target to the
\* record decoded from the first data row only, and returns no error because
\* of the further data rows.
C10_AsStated ==
    (/\ pc = "Unmarshal"
     /\ SingleTarget(call.rv)
     /\ Len(RowsOf(call.data)) >= 2
     /\ Rectangular(call.data)
     /\ RowConvertible(call.rv.t.elem, HeaderOf(call.data), DataRowsOf(call.data)[1])) =>
        /\ ret.err = Nil
        /\ TargetDecoded(call.rv, call.data, ret.v)

\* C10: for every document with a header and one or more data rows, Unmarshal
\* into a reference to a single record decodes every data row; when it
\* returns no error the target is the record decoded from the first data row
\* only, and it returns none when the rows all have the header's number of
\* cells and their cells all convert; when a cell of any row, the first or a
\* further one, does not convert, it returns an error, and with an error it
\* leaves the target as it was.
C10_SingleRecord ==
    (pc = "Unmarshal" /\ SingleTarget(call.rv) /\ Len(RowsOf(call.data)) >= 2) =>
        /\ ret.err = Nil => TargetDecoded(call.rv, call.data, ret.v)
        /\ ret.err # Nil => ret.v = call.rv.d
        /\ (Rectangular(call.data) /\ Decodable(call.rv, call.data)) => ret.err = Nil
        /\ ~Decodable(call.rv, call.data) => ret.err # Nil

\* Unmarshal has set a single record from a document of two data rows that
\* decode to different records
C10_Witness ==
    /\ pc = "Unmarshal"
    /\ SingleTarget(call.rv)
    /\ Len(DataRowsOf(call.data)) >= 2
    /\ DataRowsOf(call.data)[1] # DataRowsOf(call.data)[2]
    /\ ret.err = Nil
    /\ ret.v # call.rv.d
    /\ ~DecodedFrom(call.rv.t.elem, HeaderOf(call.data), DataRowsOf(call.data)[2], ret.v[1])

(***************************************************************************)
(* C11  Empty document                                                      *)
(***************************************************************************)
\* C11: Unmarshal of a document that parses to zero rows (no byte at all, or
\* blank lines only) returns the empty-document error, for a sequence target
\* and for a single-record target of a valid shape alike.
C11_EmptyDocument ==
    (/\ pc = "Unmarshal"
     /\ SingleTarget(call.rv) \/ SeqTarget(call.rv)
     /\ IsRecord(RecordTypeOf(call.rv.t))
     /\ RowsOf(call.data) = << >>) =>
        ret.err = "no records found"

\* Unmarshal has turned down, for a single-record target, a document that
\* holds a line and no row
C11_Witness ==
    /\ pc = "Unmarshal"
    /\ SingleTarget(call.rv)
    /\ Len(call.data) >= 1
    /\ RowsOf(call.data) = << >>
    /\ ret.err = "no records found"

(***************************************************************************)
(* C12  Header-only document                                                *)
(***************************************************************************)
\* C12: Unmarshal of a document that has a header row and no data row returns
\* the no-data-rows error when the target is a single record, and succeeds
\* when the target is a sequence, adding no record to it: a sequence that was
\* empty is empty afterwards.
C12_HeaderOnly ==
    (/\ pc = "Unmarshal"
     /\ SingleTarget(call.rv) \/ SeqTarget(call.rv)
     /\ IsRecord(RecordTypeOf(call.rv.t))
     /\ Len(RowsOf(call.data)) = 1) =>
        IF SingleTarget(call.rv)
        THEN ret.err = "no data rows found"
        ELSE /\ ret.err = Nil
             /\ Added(call.rv, ret.v) = << >>
             /\ ret.v = call.rv.d

\* Unmarshal has turned down, for a single-record target, a document of a
\* header of two columns followed by a blank line
C12_Witness ==
    /\ pc = "Unmarshal"
    /\ SingleTarget(call.rv)
    /\ Len(call.data) >= 2
    /\ Len(RowsOf(call.data)) = 1
    /\ Len(HeaderOf(call.data)) >= 2
    /\ ret.err = "no data rows found"

(***************************************************************************)
(* C13  Empty-cell defaulting                                               *)
(***************************************************************************)
ConversionErrors ==
    {"strconv.ParseInt", "strconv.ParseUint", "strconv.ParseFloat", "strconv.ParseBool"}

\* signed integer, unsigned integer, floating point, boolean
DefaultingKind(t) == IsIntKind(t) \/ IsUintKind(t) \/ t.k \in {"float64", "bool"}

\* the text of the cell is a value of the kind
CellParses(t, cell) ==
    CASE IsIntKind(t) -> ParseInt(cell).ok
      [] IsUintKind(t) -> ParseUint(cell).ok
      [] t.k = "float64" -> ParseFloat(cell).ok
      [] t.k = "bool" -> ParseBool(cell).ok
      [] t.k = "string" -> TRUE
      [] t = TimeType -> UnmarshalText(cell).ok
      [] OTHER -> FALSE

\* the kind of the field the i-th column is assigned to
ColumnKind(t, data, i) == LeafType(t, FieldOf(t, HeaderOf(data)[i]))

\* the cells under columns with a field: data row k, column i
FieldCells(t, data) ==
    {c \in (1..Len(DataRowsOf(data))) \X (1..Len(HeaderOf(data))) :
        /\ c[2] \in Shared(HeaderOf(data), DataRowsOf(data)[c[1]])
        /\ HasField(t, HeaderOf(data)[c[2]])}

CellAt(data, c) == DataRowsOf(data)[c[1]][c[2]]

\* an empty cell under a field of a defaulting kind
EmptyDefaulting(t, data, c) ==
    DefaultingKind(ColumnKind(t, data, c[2])) /\ CellAt(data, c) = << >>

\* a non-empty cell under a field of a defaulting kind that is no value of it
Unparseable(t, data, c) ==
    /\ DefaultingKind(ColumnKind(t, data, c[2]))
    /\ CellAt(data, c) # << >>
    /\ ~CellParses(ColumnKind(t, data, c[2]), CellAt(data, c))

\* the record decoded from data row k
DecodedRecord(rv, v, k) == IF SingleTarget(rv) THEN v[1] ELSE Added(rv, v)[k]

\* a valid target, and a document with a header whose rows all have the
\* header's number of cells; at least one data row for a single record
WellFormedCall(rv, data) ==
    /\ SingleTarget(rv) \/ SeqTarget(rv)
    /\ Len(RowsOf(data)) >= (IF SingleTarget(rv) THEN 2 ELSE 1)
    /\ Rectangular(data)

\* C13: for a leaf field of signed integer, unsigned integer, floating point
\* or boolean kind, decoding an empty cell assigns the zero value of the kind
\* and returns no error, while a non-empty cell that cannot be parsed as the
\* kind makes Unmarshal return a conversion error.
C13_EmptyCells ==
    (pc = "Unmarshal" /\ WellFormedCall(call.rv, call.data)) =>
        LET t == RecordTypeOf(call.rv.t)
            cells == FieldCells(t, call.data)
        IN  /\ (\A c \in cells :
                   \/ EmptyDefaulting(t, call.data, c)
                   \/ CellParses(ColumnKind(t, call.data, c[2]), CellAt(call.data, c))) =>
                   /\ ret.err = Nil
                   /\ \A c \in cells :
                          (/\ EmptyDefaulting(t, call.data, c)
                           /\ SingleTarget(call.rv) => c[1] = 1
                           /\ \A j \in (c[2] + 1)..Len(HeaderOf(call.data)) :
                                  HeaderOf(call.data)[j] # HeaderOf(call.data)[c[2]]) =>
                              IsEmptyValue(ReadLeaf(t, DecodedRecord(call.rv, ret.v, c[1]),
                                                    FieldOf(t, HeaderOf(call.data)[c[2]])))
            /\ (/\ \E c \in cells : Unparseable(t, call.data, c)
                /\ \A c \in cells :
                       \/ DefaultingKind(ColumnKind(t, call.data, c[2]))
                       \/ CellParses(ColumnKind(t, call.data, c[2]), CellAt(call.data, c))) =>
                   ret.err \in ConversionErrors

\* Unmarshal has decoded a row with empty cells under an unsigned integer, a
\* floating point and a boolean field, over a record that held other values
C13_Witness ==
    /\ pc = "Unmarshal"
    /\ WellFormedCall(call.rv, call.data)
    /\ RecordTypeOf(call.rv.t) = Kinds
    /\ ret.err = Nil
    /\ {ColumnKind(Kinds, call.data, c[2]).k :
           c \in {d \in FieldCells(Kinds, call.data) : EmptyDefaulting(Kinds, call.data, d)}}
           = {"uint8", "float64", "bool"}
    /\ SingleTarget(call.rv)
    /\ call.rv.d # ret.v

(***************************************************************************)
(* C14  Unsupported kinds                                                   *)
(***************************************************************************)
UnsupportedErrors == {"unsupported struct type", "unsupported field type"}

\* the kind the leaf field at path p is declared with
DeclaredKind(t, p) == FieldAt(t, p).type

\* not signed or unsigned integer, floating point, boolean, text or date-time
DeclaredUnsupported(t, p) == ~SupportedKind(DeclaredKind(t, p))

\* Marshal is given one record at least, in an accepted shape, and no nil
RecordsGiven(rv) ==
    /\ IsRecordOrRef(rv.t) \/ IsSeqShape(rv.t) \/ IsRefToSeqShape(rv.t)
    /\ ~NilInput(rv)
    /\ ~NilElementGiven(rv)
    /\ Len(ElementsOf(rv)) >= 1

\* C14: a leaf field whose declared kind is not one of signed integer,
\* unsigned integer, floating point, boolean, text or date-time (a record
\* that is not embedded, a sequence, a map, a reference-typed field) makes the
\* call fail with the unsupported-kind error at the first value of that field
\* that is converted: in Marshal when a record is encoded, in Unmarshal when a
\* data row has a cell under the field's column.
C14_UnsupportedKinds ==
    /\ (/\ pc = "Marshal"
        /\ RecordsGiven(call.rv)
        /\ \E p \in LeafPathSet(RecordTypeOf(call.rv.t)) :
               DeclaredUnsupported(RecordTypeOf(call.rv.t), p)) =>
           /\ ret.err \in UnsupportedErrors
           /\ ret.data = << >>
    /\ (/\ pc = "Unmarshal"
        /\ WellFormedCall(call.rv, call.data)
        /\ \E c \in FieldCells(RecordTypeOf(call.rv.t), call.data) :
               DeclaredUnsupported(RecordTypeOf(call.rv.t),
                                   FieldOf(RecordTypeOf(call.rv.t), HeaderOf(call.data)[c[2]]))
        /\ \A c \in FieldCells(RecordTypeOf(call.rv.t), call.data) :
               \/ DeclaredUnsupported(RecordTypeOf(call.rv.t),
                      FieldOf(RecordTypeOf(call.rv.t), HeaderOf(call.data)[c[2]]))
               \/ EmptyDefaulting(RecordTypeOf(call.rv.t), call.data, c)
               \/ CellParses(ColumnKind(RecordTypeOf(call.rv.t), call.data, c[2]),
                             CellAt(call.data, c))) =>
           ret.err \in UnsupportedErrors

(***************************************************************************)
(* C15  Column-name collision                                               *)
(***************************************************************************)
\* the leaf fields of t that share their column name with a later leaf field
Shadowed(t) ==
    {p \in LeafPathSet(t) :
        \E q \in LeafPathSet(t) : NameOf(t, q) = NameOf(t, p) /\ DeclaredBefore(p, q)}

\* the data rows Unmarshal decodes: the first for a single record, else all
DecodedRows(rv, data) ==
    IF SingleTarget(rv) THEN {1} ELSE 1..Len(DataRowsOf(data))

\* the columns of the header Marshal emitted under the name
ColumnsNamed(headers, name) == {i \in 1..Len(headers) : headers[i] = name}

\* C15: when two leaf fields of a record type resolve to the same column
\* name, Unmarshal assigns a cell under that name to the later field only, the
\* earlier one stays at its zero value and no error is reported, and Marshal
\* emits a column for each of the two fields, both under the shared name, each
\* holding its own field's values.
C15_NameCollision ==
    /\ (/\ pc = "Unmarshal"
        /\ WellFormedCall(call.rv, call.data)
        /\ Shadowed(RecordTypeOf(call.rv.t)) # {}
        /\ SupportedType(RecordTypeOf(call.rv.t))
        /\ Decodable(call.rv, call.data)) =>
           /\ ret.err = Nil
           /\ \A k \in DecodedRows(call.rv, call.data) :
                  \A p \in LeafPathSet(RecordTypeOf(call.rv.t)) :
                      ReadLeaf(RecordTypeOf(call.rv.t), DecodedRecord(call.rv, ret.v, k), p).d =
                          IF p \in Shadowed(RecordTypeOf(call.rv.t))
                          THEN ReadLeaf(RecordTypeOf(call.rv.t), Zero(RecordTypeOf(call.rv.t)), p).d
                          ELSE ExpectedLeaf(RecordTypeOf(call.rv.t), HeaderOf(call.data),
                                            DataRowsOf(call.data)[k], p)
    /\ (/\ pc = "Marshal"
        /\ RecordsGiven(call.rv)
        /\ Shadowed(RecordTypeOf(call.rv.t)) # {}
        /\ SupportedType(RecordTypeOf(call.rv.t))) =>
           /\ ret.err = Nil
           /\ Len(ret.headers) = Len(ColumnSet(call.rv))
           /\ \A n \in 1..Len(ret.headers) :
                  /\ ret.headers[n] = ColumnSet(call.rv)[n].name
                  /\ \A j \in 1..Len(RecordsOf(call.rv)) :
                         ret.records[j + 1][n] =
                             FormatValue(ReadLeaf(RecordTypeOf(call.rv.t), RecordsOf(call.rv)[j],
                                                  ColumnSet(call.rv)[n].indexPath)).value
           /\ \A p \in Shadowed(RecordTypeOf(call.rv.t)) :
                  (\A n \in 1..Len(ColumnSet(call.rv)) :
                       ColumnSet(call.rv)[n].name = NameOf(RecordTypeOf(call.rv.t), p) =>
                           ~ColumnSet(call.rv)[n].omitempty) =>
                      Cardinality(ColumnsNamed(ret.headers, NameOf(RecordTypeOf(call.rv.t), p))) =
                          Cardinality({q \in LeafPathSet(RecordTypeOf(call.rv.t)) :
                              NameOf(RecordTypeOf(call.rv.t), q) = NameOf(RecordTypeOf(call.rv.t), p)})

\* Unmarshal has decoded a row with two non-empty cells under the shared name
\* into a record whose earlier field is left at zero
C15_Witness ==
    /\ pc = "Unmarshal"
    /\ WellFormedCall(call.rv, call.data)
    /\ RecordTypeOf(call.rv.t) = Dup
    /\ ret.err = Nil
    /\ SeqTarget(call.rv)
    /\ HeaderOf(call.data) = << <<"x">>, <<"x">> >>
    /\ \E k \in 1..Len(DataRowsOf(call.data)) :
           /\ DataRowsOf(call.data)[k] = << <<"p">>, <<"q">> >>
           /\ Added(call.rv, ret.v)[k] = << << >>, <<"q">> >>

(***************************************************************************)
(* C16  Write-then-read-latest                                              *)
(***************************************************************************)
\* C16: after any sequence of WriteFile calls on one path pattern with stars,
\* each replacing every star with the timestamp of the write, into a directory
\* holding no other matching file, ReadFile with the pattern reads the file
\* whose name is the greatest of the matches, which is the file of the most
\* recent write, and decodes it with the codec of its extension; ReadFile
\* returns an error when no file matches.
C16_ReadLatest ==
    pc = "ReadFile" =>
        IF Glob(fsPath, files) = {} THEN ret.err # Nil
        ELSE /\ ret.filename \in Glob(fsPath, files)
             /\ \A g \in Glob(fsPath, files) : ~StringLess(ret.filename, g)
             /\ last # << >>
             /\ ret.filename = last[1].name
             /\ ret.data = last[1].bs
             /\ ret.codec = CodecOf(Ext(ret.filename))
             /\ ret.codec = ret.data.enc

(***************************************************************************)
(* C17  Or                                                                  *)
(***************************************************************************)
\* the positions of the arguments that are not the zero value of the type
NonZeroArgs(t, vals) == {i \in 1..Len(vals) : vals[i] # Zero(t)}

\* C17: Or returns the first of its arguments, in argument order, that
\* differs from the zero value of the type, and the zero value when every
\* argument is zero or there is no argument.
C17_Or ==
    pc = "Or" =>
        IF NonZeroArgs(call.t, call.vals) = {} THEN ret.v = Zero(call.t)
        ELSE \E i \in NonZeroArgs(call.t, call.vals) :
                 /\ \A j \in NonZeroArgs(call.t, call.vals) : i <= j
                 /\ ret.v = call.vals[i]

\* Or was given a zero value, then two different values that are not zero,
\* and has returned the first of them
C17_Witness ==
    /\ pc = "Or"
    /\ Len(call.vals) = 3
    /\ call.vals[1] = Zero(call.t)
    /\ call.vals[2] # Zero(call.t)
    /\ call.vals[3] \notin {Zero(call.t), call.vals[2]}
    /\ ret.v = call.vals[2]

(***************************************************************************)
(* C18  Row-to-record correspondence on decode                              *)
(***************************************************************************)
\* record i of the sequence the target refers to after the call
HeldAt(rv, v, i) == IF rv.t.elem.elem.k = "ptr" THEN v[1][i][1] ELSE v[1][i]

\* C18: after a successful Unmarshal of a document with N data rows into a
\* sequence target, the target holds exactly N records and record i is the
\* one decoded from data row i into a fresh zero record: no field value
\* carries over from a previous row or from what the target held before.
C18_RowCorrespondence ==
    (/\ pc = "Unmarshal"
     /\ SeqTarget(call.rv)
     /\ IsRecord(RecordTypeOf(call.rv.t))
     /\ ret.err = Nil) =>
        /\ Len(ret.v[1]) = Len(DataRowsOf(call.data))
        /\ \A i \in 1..Len(DataRowsOf(call.data)) :
               DecodedFrom(RecordTypeOf(call.rv.t), HeaderOf(call.data),
                           DataRowsOf(call.data)[i], HeldAt(call.rv, ret.v, i))

(***************************************************************************)
(* C19  Cells of a retained omit-if-empty column                            *)
(***************************************************************************)
\* the text of the zero value of a supported kind
ZeroCell(t) ==
    CASE IsIntKind(t) \/ IsUintKind(t) \/ t.k = "float64" -> <<"0">>
      [] t.k = "bool" -> <<"f", "a", "l", "s", "e">>
      [] t.k = "string" -> << >>
      [] t = TimeType ->
            <<"0", "0", "0", "1", "-", "0", "1", "-", "0", "1", "T",
              "0", "0", ":", "0", "0", ":", "0", "0", "Z">>

\* the cells of the omit-if-empty columns kept, of the records empty there
EmptyKept(rv) ==
    {c \in (1..Len(RecordsOf(rv))) \X (1..Len(ColumnSet(rv))) :
        /\ ColumnSet(rv)[c[2]].omitempty
        /\ IsEmptyValue(ReadLeaf(RecordTypeOf(rv.t), RecordsOf(rv)[c[1]],
                                 ColumnSet(rv)[c[2]].indexPath))}

\* the kind of the field of the n-th column kept
KeptKind(rv, n) == LeafType(RecordTypeOf(rv.t), ColumnSet(rv)[n].indexPath)

\* every record has a row, every row a cell for every column
RowsComplete ==
    /\ Len(ret.records) = Len(RecordsOf(call.rv)) + 1
    /\ \A j \in 2..Len(ret.records) : Len(ret.records[j]) = Len(ret.headers)

\* C19 as stated: when a record of the batch holds a non-empty value in an
\* omit-if-empty field, every data row has a cell for the column, and the
\* cell of each record whose value there is empty is the empty string, for
\* every supported field kind.
C19_AsStated ==
    (MarshalOK /\ RecordsGiven(call.rv)) =>
        /\ RowsComplete
        /\ \A c \in EmptyKept(call.rv) : ret.records[c[1] + 1][c[2]] = << >>

\* C19: when a record of the batch holds a non-empty value in an
\* omit-if-empty field, every data row has a cell for the column, and the
\* cell of each record whose value there is empty is the text of the zero
\* value of the field's kind: empty for text, 0 for integers and floating
\* point, false for booleans, 0001-01-01T00:00:00Z for date-time.
C19_RetainedCells ==
    (MarshalOK /\ RecordsGiven(call.rv)) =>
        /\ RowsComplete
        /\ \A c \in EmptyKept(call.rv) :
               ret.records[c[1] + 1][c[2]] = ZeroCell(KeptKind(call.rv, c[2]))

\* Marshal has encoded two records with omit-if-empty fields of unsigned
\* integer, floating point, boolean and date-time kind, one record holding
\* values there and the other none
C19_Witness ==
    /\ MarshalOK
    /\ RecordsGiven(call.rv)
    /\ Len(RecordsOf(call.rv)) = 2
    /\ {KeptKind(call.rv, c[2]).k : c \in EmptyKept(call.rv)} =
           {"uint8", "float64", "bool", "struct"}
    /\ \A c \in EmptyKept(call.rv) : c[1] = 2

(***************************************************************************)
(* C20  Field resolution never fails                                        *)
(***************************************************************************)
\* C20: for every record type and every annotation on its fields, the ones
\* made of delimiters and blanks only included, collectFields returns
\* normally with exactly one leaf descriptor for every field that is not an
\* embedded record.
C20_ResolutionTotal ==
    pc = "collectFields" =>
        /\ ~ret.panicked
        /\ Len(ret.fields) = Cardinality(LeafPathSet(call.t))
        /\ {ret.fields[n].indexPath : n \in 1..Len(ret.fields)} = LeafPathSet(call.t)

(***************************************************************************)
(* C21  Marshal leaves its input unchanged                                  *)
(***************************************************************************)
\* C21: after Marshal returns, with bytes or with an error, every record the
\* caller passed, as a single record, through a reference or as elements of a
\* sequence, has the field values it had before the call, and an embedded
\* optional sub-record that was absent is still absent.
C21_InputUnchanged ==
    pc = "Marshal" => ret.v = call.rv.d

(***************************************************************************)
(* C22  Unmarshal changes nothing on failure                                *)
(***************************************************************************)
\* C22: whenever Unmarshal returns an error (shape, parse, empty document,
\* no data rows, conversion or unsupported kind), the target is exactly as it
\* was before the call; a conversion failure in data row k does not leave the
\* records of the data rows before k appended to a sequence target.
C22_UnchangedOnFailure ==
    (pc = "Unmarshal" /\ ret.err # Nil) => ret.v = call.rv.d

(***************************************************************************)
(* C23  Integer width on decode                                             *)
(***************************************************************************)
\* the cell is a decimal number
IsDecimal(cell) == ParseInt(cell).ok

\* x is no value of the integer kind t; the numbers written in the cells
\* used are short, none lies outside 64 bits but the negative ones for an
\* unsigned kind
OutOfRange(t, x) ==
    IF IsUintKind(t) /\ x < 0 THEN TRUE
    ELSE IF Bits(t) = 64 THEN FALSE
    ELSE IF IsIntKind(t) THEN x < -Pow2(Bits(t) - 1) \/ x >= Pow2(Bits(t) - 1)
    ELSE x >= Pow2(Bits(t))

\* the cells under integer fields that hold a decimal number
IntegerCells(t, data) ==
    {c \in FieldCells(t, data) :
        /\ IsIntKind(ColumnKind(t, data, c[2])) \/ IsUintKind(ColumnKind(t, data, c[2]))
        /\ IsDecimal(CellAt(data, c))}

\* the cell is the last of its row under the name of its column
LastOfName(data, c) ==
    \A j \in (c[2] + 1)..Len(HeaderOf(data)) : HeaderOf(data)[j] # HeaderOf(data)[c[2]]

\* C23: for a signed or unsigned integer field of width w bits, a decimal
\* cell whose value lies outside the range of w bits makes Unmarshal return a
\* conversion error, and no field is ever assigned a value different from the
\* number written in its cell: there is no wrap-around modulo 2^w.
C23_IntegerWidth ==
    (pc = "Unmarshal" /\ WellFormedCall(call.rv, call.data)) =>
        /\ (/\ \E c \in IntegerCells(RecordTypeOf(call.rv.t), call.data) :
                   OutOfRange(ColumnKind(RecordTypeOf(call.rv.t), call.data, c[2]),
                              ParseInt(CellAt(call.data, c)).val)
            /\ \A c \in FieldCells(RecordTypeOf(call.rv.t), call.data) :
                   \/ DefaultingKind(ColumnKind(RecordTypeOf(call.rv.t), call.data, c[2]))
                   \/ CellParses(ColumnKind(RecordTypeOf(call.rv.t), call.data, c[2]),
                                 CellAt(call.data, c))) =>
               ret.err \in ConversionErrors
        /\ ret.err = Nil =>
               \A c \in IntegerCells(RecordTypeOf(call.rv.t), call.data) :
                   (c[1] \in DecodedRows(call.rv, call.data) /\ LastOfName(call.data, c)) =>
                       ReadLeaf(RecordTypeOf(call.rv.t), DecodedRecord(call.rv, ret.v, c[1]),
                                FieldOf(RecordTypeOf(call.rv.t), HeaderOf(call.data)[c[2]])).d
                           = ParseInt(CellAt(call.data, c)).val

(***************************************************************************)
(* C24  Allocation on demand on decode                                      *)
(***************************************************************************)
\* the leaf field at the path lies in a sub-record reached through a pointer
RECURSIVE ThroughRef(_, _)
ThroughRef(t, p) ==
    IF Len(p) <= 1 THEN FALSE
    ELSE \/ t.fields[Head(p) + 1].type.k = "ptr"
         \/ ThroughRef(IF t.fields[Head(p) + 1].type.k = "ptr"
                       THEN t.fields[Head(p) + 1].type.elem
                       ELSE t.fields[Head(p) + 1].type, Tail(p))

\* no pointer is nil on the way to the leaf field at the path
RECURSIVE Present(_, _, _)
Present(t, d, p) ==
    IF Len(p) <= 1 THEN TRUE
    ELSE IF t.fields[Head(p) + 1].type.k = "ptr"
         THEN /\ d[Head(p) + 1] # << >>
              /\ Present(t.fields[Head(p) + 1].type.elem, d[Head(p) + 1][1], Tail(p))
         ELSE Present(t.fields[Head(p) + 1].type, d[Head(p) + 1], Tail(p))

\* C24: when Unmarshal assigns a cell to a leaf field inside a sub-record
\* embedded through an optional reference, the absent sub-record of the fresh
\* record is allocated first: in the decoded record the reference is present
\* and holds the converted values, and every decoded record has a sub-record
\* of its own, holding the values of its own row only.
C24_AllocationOnDemand ==
    (pc = "Unmarshal" /\ WellFormedCall(call.rv, call.data) /\ ret.err = Nil) =>
        \A k \in DecodedRows(call.rv, call.data) :
            \A p \in LeafPathSet(RecordTypeOf(call.rv.t)) :
                ThroughRef(RecordTypeOf(call.rv.t), p) =>
                    /\ ColumnsOf(RecordTypeOf(call.rv.t), HeaderOf(call.data),
                                 DataRowsOf(call.data)[k], p) # {} =>
                           Present(RecordTypeOf(call.rv.t),
                                   DecodedRecord(call.rv, ret.v, k), p)
                    /\ ReadLeaf(RecordTypeOf(call.rv.t), DecodedRecord(call.rv, ret.v, k), p).d =
                           ExpectedLeaf(RecordTypeOf(call.rv.t), HeaderOf(call.data),
                                        DataRowsOf(call.data)[k], p)

\* Unmarshal has decoded two rows with different cells under a column of the
\* sub-record embedded by pointer: both records have it, with different values
C24_Witness ==
    /\ pc = "Unmarshal"
    /\ SeqTarget(call.rv)
    /\ RecordTypeOf(call.rv.t) = PtrExtendedRecord
    /\ ret.err = Nil
    /\ Len(Added(call.rv, ret.v)) = 2
    /\ Added(call.rv, ret.v)[1][1] # << >>
    /\ Added(call.rv, ret.v)[2][1] # << >>
    /\ Added(call.rv, ret.v)[1][1] # Added(call.rv, ret.v)[2][1]

====
